---- MODULE Spec2Model ----
(***************************************************************************)
(* A model of iou, the Rust interface to liburing's io_uring rings.        *)
(*                                                                         *)
(* The state is the memory of one ring (src/iou-sys/src/lib.rs: io_uring,  *)
(* io_uring_sq, io_uring_cq), the requests the kernel has taken and not    *)
(* yet completed, and the handles the two sides of the ring hold (an SQE   *)
(* or a batch of SQEs on the submission side, a CompletionQueueEvent on    *)
(* the completion side).  The submission side and the completion side are  *)
(* two processes, as after IoUring::queues(); a single thread that owns    *)
(* the IoUring runs one of their interleavings.                            *)
(*                                                                         *)
(* liburing and the kernel are not part of the repository's sources: the   *)
(* definitions that model them (io_uring_get_sqe, io_uring_submit, the     *)
(* kernel's consumption and completion of requests, ...) follow the        *)
(* transport interface of the specification.                               *)
(*                                                                         *)
(* The ring's counters are 32 bits wide in the code and wrap; here their   *)
(* width is WordBits, small enough for the wrap to be reached from a       *)
(* fresh ring, with the same relation to the capacity (2 * Entries fits).  *)
(***************************************************************************)
EXTENDS Integers, Sequences, FiniteSets, TLC

WordBits == 4
EntriesBits == 1
\* the slots a behaviour claims after the ring's first state
MaxOps == 4
\* the slots a behaviour that tags its requests claims
MaxTagged == 3
\* the files of a fileset are at most this many
MaxFiles == 2
\* the slots a caller that sets flags and targets claims
MaxSlots == 1
\* the width of an i32: the transport's answers are IntBits wide and signed
IntBits == 8

WordMod == 2 ^ WordBits
\* *sq.kring_entries, *sq.kring_mask
Entries == 2 ^ EntriesBits
Mask == Entries - 1
\* "The underlying SubmissionQueue and CompletionQueue will each have this
\* number of entries."
CqEntries == Entries
CqMask == CqEntries - 1
\* the requests the kernel holds before it answers a submit with an error
MaxInflight == Entries

LIBURING_UDATA_TIMEOUT == -1
\* the user data a caller passes: the 64-bit values 1 and u64::MAX
\* (read as a two's complement number)
UserData == {1, LIBURING_UDATA_TIMEOUT}
\* the errno values the transport answers with (EINTR, EBUSY)
Errnos == {4, 16}
\* the counts prepare_sqes is called with: every count up to one more than
\* the capacity, and the largest count of the counter's width
Counts == (0 .. Entries + 1) \cup {WordMod - 1}
\* the counts submit_and_wait is called with
WaitCounts == 0 .. 1

NoHandle == -1
NoCqe == [ring |-> FALSE, at |-> -1]
\* (hard tells what the handle taken from the batch is: "none" for an SQE,
\* "link" for a HardLinkedSQE, "final" for a HardLinkedSQE with is_final)
NoBatch == [base |-> 0, len |-> 0, next |-> 0, live |-> FALSE, hard |-> "none"]
\* a null pointer into cq.cqes
NullPtr == -1
\* no CompletionQueueEvents held
\* (head0, taken, handled and last are history: the head when the iteration
\* was made, the completions it has taken, the calls of its timeout handler
\* and the tag of the completion it took last)
NoIter == [live |-> FALSE, ptr |-> NullPtr, available |-> 0, seen |-> 0,
           handler |-> FALSE, head0 |-> 0, taken |-> 0, handled |-> 0,
           last |-> 0]
\* what a call of the registrar returned: Ok with the handles, or Err with
\* the kind of the error and, for an error of the kernel, its number.
\* (kernel, before, offset, files and prev are history: whether the call asked
\* the kernel, fileset_size before the call, the call's arguments, and the call
\* before it)
RegRet(op, kind, err, val, kernel, handles, before, offset, files, prev) ==
    [op |-> op, kind |-> kind, err |-> err, val |-> val, kernel |-> kernel,
     handles |-> handles, before |-> before, offset |-> offset, files |-> files,
     prev |-> prev]

VARIABLES
    base,       \* the value of the ring's counters in the first state
    sqpoll,     \* (*ring).flags has IORING_SETUP_SQPOLL
    sq_khead,   \* *sq.khead: advanced by the kernel
    sq_ktail,   \* *sq.ktail: the published tail
    sqe_head,   \* sq.sqe_head
    sqe_tail,   \* sq.sqe_tail: the unpublished tail
    sq_array,   \* sq.array
    sqes,       \* sq.sqes
    cq_khead,   \* *cq.khead: advanced by the user process
    cq_ktail,   \* *cq.ktail: advanced by the kernel
    cqes,       \* cq.cqes
    inflight,   \* the requests the kernel has consumed and not completed
    sqe,        \* the SQE the submission side holds: its place in sq.sqes
    batch,      \* the SQEs the submission side holds
    cqe,        \* the CompletionQueueEvent the completion side holds
    sq_pc,      \* where the submission side is
    sq_wait,    \* the wait_for of the call the submission side is in
    cq_pc,      \* where the completion side is
    sq_ret,     \* what the submission side's last call returned
    cq_ret,     \* what the completion side's last call returned
    got,        \* the arrival number of the last completion handed out
    iter,       \* the CompletionQueueEvents the completion side holds
    num_reg_files, \* Registrar.num_reg_files: 0 for None
    kfiles,     \* the kernel's table of registered files
    reg_ret,    \* what the registrar's last call returned
    kreg        \* what else the kernel has registered: buffers, an eventfd

vars == <<base, sqpoll, sq_khead, sq_ktail, sqe_head, sqe_tail, sq_array, sqes,
          cq_khead, cq_ktail, cqes, inflight, sqe, batch, cqe,
          sq_pc, sq_wait, cq_pc, sq_ret, cq_ret, got,
          iter, num_reg_files, kfiles, reg_ret, kreg>>

ring_vars == <<base, sqpoll, sq_khead, sq_ktail, sqe_head, sqe_tail, sq_array,
               sqes, cq_khead, cq_ktail, cqes, inflight, sqe, batch, cqe,
               sq_pc, sq_wait, cq_pc, sq_ret, cq_ret, got>>
reg_vars == <<num_reg_files, kfiles, reg_ret, kreg>>

sq_vars == <<sq_khead, sq_ktail, sqe_head, sqe_tail, sq_array, sqes>>
cq_vars == <<cq_khead, cq_ktail, cqes>>

----
(* Arithmetic *)

\* Wrapping<u32>, c_uint
Wrap(x) == x % WordMod
WSub(a, b) == (a - b) % WordMod

RECURSIVE BitAnd(_, _)
BitAnd(a, b) ==
    IF a = 0 \/ b = 0 THEN 0
    ELSE (a % 2) * (b % 2) + 2 * BitAnd(a \div 2, b \div 2)

\* bitflags SubmissionFlags: u8
FIXED_FILE == 1
IO_DRAIN == 2
IO_LINK == 4
IO_HARDLINK == 8
ASYNC == 16

\* the | of two u8 flag sets
BitOr(a, b) == a + b - BitAnd(a, b)
\* SubmissionFlags::contains
Contains(flags, f) == BitAnd(flags, f) = f

\* mem::zeroed() of an io_uring_sqe: opcode 0 is IORING_OP_NOP
Zeroed == [opcode |-> "NOP", flags |-> 0, user_data |-> 0, fd |-> 0, addr |-> 0]

Ret(op, kind, val) == [op |-> op, kind |-> kind, val |-> val, enters |-> 0, raw |-> 0]
RetT(op, kind, val, enters, raw) ==
    [op |-> op, kind |-> kind, val |-> val, enters |-> enters, raw |-> raw]

\* resultify without the negation of the errno
ResultifyNoNegate(x) == IF x >= 0 THEN [kind |-> "Ok", val |-> x] ELSE [kind |-> "Err", val |-> x]
\* fn resultify(x: i32) -> io::Result<u32>, in a build without overflow
\* checks: the negation of i32::MIN wraps to i32::MIN
Resultify(x) ==
    IF x >= 0 THEN [kind |-> "Ok", val |-> x]
    ELSE [kind |-> "Err", val |-> IF x = -(2 ^ (IntBits - 1)) THEN x ELSE -x]

\* a call of resultify with any i32; in a build with overflow checks the
\* negation of i32::MIN panics ("attempt to negate with overflow")
CallResultify(x, checks) ==
    /\ sq_pc = "idle"
    /\ sq_ret' = IF checks /\ x = -(2 ^ (IntBits - 1))
                 THEN RetT("resultify", "Panic", 0, 0, x)
                 ELSE RetT("resultify", Resultify(x).kind, Resultify(x).val, 0, x)
    /\ UNCHANGED <<base, sqpoll, sq_vars, cq_vars, inflight, sqe, batch, cqe,
                   sq_pc, sq_wait, cq_pc, cq_ret, got, iter, reg_vars>>

\* the slots claimed since the first state
Claimed == WSub(sqe_tail, base)

\* io_uring_sq_ready, io_uring_sq_space_left, io_uring_cq_ready
SqReady == WSub(sqe_tail, sq_khead)
SpaceLeft == Entries - SqReady
CqReady == WSub(cq_ktail, cq_khead)

----
(* liburing and the kernel: the transport *)

\* io_uring_get_sqe that keeps one slot of the ring unused
GetSqeFitsStrict == WSub(Wrap(sqe_tail + 1), sq_khead) < Entries
\* io_uring_get_sqe: a slot is free when sqe_tail + 1 - khead <= entries
GetSqeFits == WSub(Wrap(sqe_tail + 1), sq_khead) <= Entries

\* __io_uring_flush_sq: the index entries of the slots sqe_head .. sqe_tail
RECURSIVE FlushSq(_, _, _, _)
FlushSq(array, ktail, head, n) ==
    IF n = 0 THEN array
    ELSE FlushSq([array EXCEPT ![BitAnd(ktail, Mask)] = BitAnd(head, Mask)],
                 Wrap(ktail + 1), Wrap(head + 1), n - 1)

ToSubmit == WSub(sqe_tail, sqe_head)

\* sq_ring_needs_enter, and the wait of io_uring_submit_and_wait
NeedsEnter(submitted, wait_nr) == (~sqpoll /\ submitted > 0) \/ wait_nr > 0

\* io_uring_enter's answers: the number of entries taken, or -errno
EnterAnswers(submitted) ==
    {-e : e \in Errnos}
        \cup (IF sqpoll \/ Len(inflight) + submitted <= MaxInflight
              THEN {submitted} ELSE {})

\* the requests the kernel reads when it takes n entries from head on
Consumed(slots, array, head, n) ==
    IF n = 0 THEN <<>>
    ELSE [k \in 1 .. n |-> slots[array[BitAnd(Wrap(head + k - 1), Mask)]]]

\* io_uring_submit / io_uring_submit_and_wait on the slots `slots`, with the
\* unpublished tail at `tail`: the flush, then the call into the kernel.
\* `enters` counts the calls into the kernel the running operation has made.
TransportSubmit(op, slots, tail, wait_nr, enters) ==
    LET n == WSub(tail, sqe_head)
        array1 == FlushSq(sq_array, sq_ktail, sqe_head, n)
        ktail1 == Wrap(sq_ktail + n)
        submitted == WSub(ktail1, sq_khead)
    IN  /\ sq_array' = array1
        /\ sq_ktail' = ktail1
        /\ sqe_head' = tail
        /\ IF NeedsEnter(submitted, wait_nr)
           THEN \E x \in EnterAnswers(submitted) :
                    /\ sq_ret' = RetT(op, Resultify(x).kind, Resultify(x).val,
                                      enters + 1, x)
                    /\ IF x >= 0 /\ ~sqpoll
                       THEN /\ sq_khead' = Wrap(sq_khead + x)
                            /\ inflight' = inflight \o Consumed(slots, array1, sq_khead, x)
                       ELSE UNCHANGED <<sq_khead, inflight>>
           ELSE /\ sq_ret' = RetT(op, Resultify(submitted).kind,
                                  Resultify(submitted).val, enters, submitted)
                /\ UNCHANGED <<sq_khead, inflight>>

\* the kernel's polling thread takes the entry at the head of the ring
KernelConsume ==
    /\ sqpoll
    /\ sq_khead # sq_ktail
    /\ Len(inflight) < MaxInflight
    /\ sq_khead' = Wrap(sq_khead + 1)
    /\ inflight' = inflight \o Consumed(sqes, sq_array, sq_khead, 1)
    /\ UNCHANGED <<reg_vars, iter, base, sqpoll, sq_ktail, sqe_head, sqe_tail, sq_array, sqes,
                   cq_vars, sqe, batch, cqe, sq_pc, sq_wait, cq_pc, sq_ret, cq_ret, got>>

RemoveAt(s, i) == SubSeq(s, 1, i - 1) \o SubSeq(s, i + 1, Len(s))

\* the result the kernel reports for a request
OpResult(req) == IF req.opcode = "TIMEOUT" THEN -62 ELSE 0

\* the opcodes of the operations on a file
FileOpcodes == {"READV", "READ_FIXED", "WRITEV", "WRITE_FIXED", "FSYNC"}
\* the poll among the requests held that the removal at i targets: the first
\* one whose tag is the removal's addr, or 0 when there is none
PollTarget(held, i) ==
    LET polls == {j \in 1 .. Len(held) : /\ held[i].opcode = "POLL_REMOVE"
                                         /\ held[j].opcode = "POLL_ADD"
                                         /\ held[j].user_data = held[i].addr}
    IN  IF polls = {} THEN 0 ELSE CHOOSE j \in polls : \A k \in polls : j <= k

\* the results the kernel may report for the i-th request it holds: an
\* operation on a file succeeds or fails (-EBADF), a request cancelled with
\* its chain or by a removal reports -ECANCELED, a poll on a file that does
\* not become ready reports nothing, a removal reports whether it found its
\* target (-ENOENT)
OpResults(held, i) ==
    IF held[i].opcode = "CANCELED" THEN {-125}
    ELSE IF held[i].opcode \in FileOpcodes THEN {0, -9}
    ELSE IF held[i].opcode = "POLL_ADD" THEN {}
    ELSE IF held[i].opcode = "POLL_REMOVE"
    THEN {IF PollTarget(held, i) = 0 THEN -2 ELSE 0}
    ELSE {OpResult(held[i])}

\* a request that links the one submitted after it: IOSQE_IO_LINK,
\* IOSQE_IO_HARDLINK
Linked(req) == Contains(req.flags, IO_LINK) \/ Contains(req.flags, IO_HARDLINK)
\* a removal that completes and takes its target with it, without a
\* completion for the target
AfterCompletionDropsTarget(held, i, res) ==
    IF PollTarget(held, i) = 0 THEN RemoveAt(held, i)
    ELSE IF PollTarget(held, i) < i
    THEN RemoveAt(RemoveAt(held, i), PollTarget(held, i))
    ELSE RemoveAt(RemoveAt(held, PollTarget(held, i)), i)
\* the requests the kernel holds once the i-th completed with res: a
\* failure of a request linked by IO_LINK alone cancels the one linked to
\* it, and a removal cancels its target
AfterCompletion(held, i, res) ==
    RemoveAt([j \in 1 .. Len(held) |->
                IF \/ /\ res < 0
                      /\ Contains(held[i].flags, IO_LINK)
                      /\ ~Contains(held[i].flags, IO_HARDLINK)
                      /\ j = i + 1
                   \/ j = PollTarget(held, i)
                THEN [held[j] EXCEPT !.opcode = "CANCELED"]
                ELSE held[j]], i)

\* the kernel completes one of the requests it holds that may run (the one
\* before it does not link it), in any
\* order, when the completion ring has room; seq is the arrival number of
\* the completion
KernelComplete ==
    /\ CqReady < CqEntries
    /\ \E i \in 1 .. Len(inflight) :
        /\ IF i = 1 THEN TRUE ELSE ~Linked(inflight[i - 1])
        /\ \E res \in OpResults(inflight, i) :
            /\ cqes' = [cqes EXCEPT ![BitAnd(cq_ktail, CqMask)] =
                            [user_data |-> inflight[i].user_data,
                             res |-> res,
                             seq |-> cq_ktail]]
            /\ inflight' = AfterCompletion(inflight, i, res)
    /\ cq_ktail' = Wrap(cq_ktail + 1)
    /\ UNCHANGED <<reg_vars, iter, base, sqpoll, sq_vars, cq_khead, sqe, batch, cqe,
                   sq_pc, sq_wait, cq_pc, sq_ret, cq_ret, got>>

\* io_uring_prep_nop, io_uring_prep_timeout: the operation's fields (fd is the
\* target of an operation on a file; these operations have none, and the
\* kernel does not read the field)
PrepNopSlot(s) == [opcode |-> "NOP", flags |-> 0, user_data |-> 0, fd |-> 0, addr |-> 0]
\* a timeout prepared as a no-op
PrepTimeoutSlotNop(s) == [opcode |-> "NOP", flags |-> 0, user_data |-> 0, fd |-> 0, addr |-> 0]
PrepTimeoutSlot(s) == [opcode |-> "TIMEOUT", flags |-> 0, user_data |-> 0, fd |-> 0, addr |-> 0]

----
(* The submission side *)

Running == sq_pc # "fault"

\* a write through an SQE handle at place p of the sqes memory: a place past
\* the end of sq.sqes is not a slot of the ring
WriteSlot(slots, p, s) == IF p < Entries THEN [slots EXCEPT ![p] = s] ELSE slots
ReadSlot(slots, p) == IF p < Entries THEN slots[p] ELSE Zeroed

\* set_user_data with `&=` for `=`, as set_flags has it
SetUserDataSlotAnd(s, user_data) ==
    [s EXCEPT !.user_data =
        IF user_data = LIBURING_UDATA_TIMEOUT THEN @
        ELSE IF @ = LIBURING_UDATA_TIMEOUT THEN user_data
        ELSE BitAnd(@, user_data)]
\* SQE::set_user_data
SetUserDataSlot(s, user_data) == [s EXCEPT !.user_data = user_data]

\* prepare_sqe without the clear of the slot
PrepareSqeNoClear ==
    /\ sq_pc = "idle"
    /\ Claimed < MaxOps
    /\ IF GetSqeFits
       THEN /\ sqe_tail' = Wrap(sqe_tail + 1)
            /\ sqe' = BitAnd(sqe_tail, Mask)
            /\ sq_ret' = Ret("prepare_sqe", "Some", BitAnd(sqe_tail, Mask))
       ELSE /\ sqe' = NoHandle
            /\ sq_ret' = Ret("prepare_sqe", "None", 0)
            /\ UNCHANGED sqe_tail
    /\ batch' = NoBatch
    /\ UNCHANGED <<reg_vars, iter, base, sqpoll, sq_khead, sq_ktail, sqe_head, sq_array, sqes,
                   cq_vars, inflight, cqe, sq_pc, sq_wait, cq_pc, cq_ret, got>>
\* pub(crate) unsafe fn prepare_sqe: io_uring_get_sqe, then clear
PrepareSqe ==
    /\ sq_pc = "idle"
    /\ Claimed < MaxOps
    /\ IF GetSqeFits
       THEN /\ sqe_tail' = Wrap(sqe_tail + 1)
            /\ sqe' = BitAnd(sqe_tail, Mask)
            /\ sqes' = WriteSlot(sqes, BitAnd(sqe_tail, Mask), Zeroed)
            /\ sq_ret' = Ret("prepare_sqe", "Some", BitAnd(sqe_tail, Mask))
       ELSE /\ sqe' = NoHandle
            /\ sq_ret' = Ret("prepare_sqe", "None", 0)
            /\ UNCHANGED <<sqe_tail, sqes>>
    /\ batch' = NoBatch
    /\ UNCHANGED <<reg_vars, iter, base, sqpoll, sq_khead, sq_ktail, sqe_head, sq_array, cq_vars,
                   inflight, cqe, sq_pc, sq_wait, cq_pc, cq_ret, got>>

\* prepare_sqes with a tail that stops at the end of the slot array
BatchNextClamped(tail, count) ==
    IF BitAnd(tail, Mask) + count > Entries
    THEN Wrap(tail + Entries - BitAnd(tail, Mask)) ELSE Wrap(tail + count)
\* let next = Wrapping(sq.sqe_tail as u32) + Wrapping(count)
BatchNext(tail, count) == Wrap(tail + count)

\* prepare_sqes without the occupancy of the ring in its check
PrepareSqesFitsNoOccupancy(count, tail, head) == ~(count > Entries)
\* prepare_sqes with `<` for `<=`
PrepareSqesFitsStrict(count, tail, head) ==
    /\ ~(count > Entries)
    /\ WSub(Wrap(tail + count), head) < Entries
\* prepare_sqes: count <= cap, and next - head <= cap
PrepareSqesFits(count, tail, head) ==
    /\ ~(count > Entries)
    /\ WSub(BatchNext(tail, count), head) <= Entries

\* pub(crate) unsafe fn prepare_sqes
PrepareSqes(count) ==
    /\ sq_pc = "idle"
    /\ Claimed + count <= MaxOps \/ count > Entries
    /\ IF PrepareSqesFits(count, sqe_tail, sq_khead)
       THEN /\ sqe_tail' = BatchNext(sqe_tail, count)
            /\ batch' = [base |-> BitAnd(sqe_tail, Mask), len |-> count,
                         next |-> 0, live |-> TRUE, hard |-> "none"]
            /\ sq_ret' = Ret("prepare_sqes", "Some", count)
       ELSE /\ batch' = NoBatch
            /\ sq_ret' = Ret("prepare_sqes", "None", count)
            /\ UNCHANGED sqe_tail
    /\ sqe' = NoHandle
    /\ UNCHANGED <<reg_vars, iter, base, sqpoll, sq_khead, sq_ktail, sqe_head, sq_array, sqes, cq_vars,
                   inflight, cqe, sq_pc, sq_wait, cq_pc, cq_ret, got>>

\* SQEs::consume: the next slot of the slice, prepared as a no-op.  A write
\* past the end of sq.sqes either lands outside the ring or faults.
\* `op` is the method that called consume and `hard` what it wraps the
\* slot in.
TakeSlot(op, hard) ==
    /\ sq_pc = "idle"
    /\ batch.live
    /\ IF batch.next < batch.len
       THEN /\ sqe' = batch.base + batch.next
            /\ batch' = [batch EXCEPT !.next = @ + 1, !.hard = hard]
            /\ sqes' = WriteSlot(sqes, batch.base + batch.next,
                                 PrepNopSlot(ReadSlot(sqes, batch.base + batch.next)))
            /\ sq_ret' = Ret(op, "Some", batch.base + batch.next)
            /\ \/ sq_pc' = sq_pc
               \/ batch.base + batch.next >= Entries /\ sq_pc' = "fault"
       ELSE /\ sqe' = NoHandle
            /\ sq_ret' = Ret(op, "None", 0)
            /\ UNCHANGED <<batch, sqes, sq_pc>>
    /\ UNCHANGED <<reg_vars, iter, base, sqpoll, sq_khead, sq_ktail, sqe_head, sqe_tail, sq_array,
                   cq_vars, inflight, cqe, sq_wait, cq_pc, cq_ret, got>>

\* SQEs::consume on its own
Consume == TakeSlot("consume", "none")

\* SQEs::remaining
Remaining == batch.len - batch.next

\* HardLinked::terminate: the next slot as an SQE
Terminate ==
    /\ batch.hard = "none"
    /\ TakeSlot("terminate", "none")

\* HardLinked::next: is_final = remaining() == 1, then consume
HardLinkedNext ==
    /\ batch.hard = "none"
    /\ TakeSlot("next", IF Remaining = 1 THEN "final" ELSE "link")

\* a write through the SQE handle the submission side holds, with what the
\* method returned
HandleWriteRet(ret, s) ==
    /\ sq_pc = "idle"
    /\ sqe # NoHandle
    /\ sqes' = WriteSlot(sqes, sqe, s)
    /\ sq_ret' = ret
    /\ \/ sq_pc' = sq_pc
       \/ sqe >= Entries /\ sq_pc' = "fault"
    /\ UNCHANGED <<reg_vars, iter, base, sqpoll, sq_khead, sq_ktail, sqe_head, sqe_tail, sq_array,
                   cq_vars, inflight, sqe, batch, cqe, sq_wait, cq_pc, cq_ret, got>>

HandleWrite(op, val, s) == HandleWriteRet(Ret(op, "Unit", val), s)

\* SQE::prep_nop
PrepNop == HandleWrite("prep_nop", 0, PrepNopSlot(ReadSlot(sqes, sqe)))

\* SQE::prep_poll_add, SQE::prep_poll_remove: io_uring_prep_rw with the
\* opcode; a removal has no file and carries the tag of its target in addr
PrepPollAdd(fd) ==
    HandleWrite("prep_poll_add", fd,
                [opcode |-> "POLL_ADD", flags |-> 0, user_data |-> 0,
                 fd |-> fd, addr |-> 0])
PrepPollRemove(user_data) ==
    HandleWrite("prep_poll_remove", user_data,
                [opcode |-> "POLL_REMOVE", flags |-> 0, user_data |-> 0,
                 fd |-> -1, addr |-> user_data])

\* SQE::set_user_data
SetUserData(user_data) ==
    HandleWrite("set_user_data", user_data,
                SetUserDataSlot(ReadSlot(sqes, sqe), user_data))

\* SQE::clear
Clear == HandleWrite("clear", 0, Zeroed)

\* submit that answers with the slots waiting and leaves them unpublished
SubmitNoFlush ==
    /\ sq_pc = "idle"
    /\ sq_ret' = RetT("submit", "Ok", ToSubmit, 0, ToSubmit)
    /\ sqe' = NoHandle
    /\ batch' = NoBatch
    /\ UNCHANGED <<reg_vars, iter, base, sqpoll, sq_vars, cq_vars, inflight, cqe, sq_pc, sq_wait,
                   cq_pc, cq_ret, got>>
\* SubmissionQueue::submit
Submit ==
    /\ sq_pc = "idle"
    /\ TransportSubmit("submit", sqes, sqe_tail, 0, 0)
    /\ sqe' = NoHandle
    /\ batch' = NoBatch
    /\ UNCHANGED <<reg_vars, iter, base, sqpoll, sqe_tail, sqes, cq_vars, cqe, sq_pc, sq_wait, cq_pc, cq_ret, got>>

\* SubmissionQueue::submit_and_wait: the call, which blocks in the kernel
\* until wait_for completions are ready
SubmitAndWait(wait_for) ==
    /\ sq_pc = "idle"
    /\ TransportSubmit("submit_and_wait", sqes, sqe_tail, wait_for, 0)
    /\ sqe' = NoHandle
    /\ batch' = NoBatch
    /\ sq_wait' = wait_for
    /\ sq_pc' = IF sq_ret'.kind = "Ok" /\ wait_for > 0 THEN "wait" ELSE "idle"
    /\ UNCHANGED <<reg_vars, iter, base, sqpoll, sqe_tail, sqes, cq_vars, cqe, cq_pc, cq_ret, got>>

\* the blocked call returns once wait_for completions are ready
WaitReturn ==
    /\ sq_pc = "wait"
    /\ CqReady >= sq_wait
    /\ sq_pc' = "idle"
    /\ UNCHANGED <<reg_vars, iter, base, sqpoll, sq_vars, cq_vars, inflight, sqe, batch, cqe,
                   sq_wait, cq_pc, sq_ret, cq_ret, got>>

\* the blocked call is interrupted
WaitInterrupted ==
    /\ sq_pc = "wait"
    /\ CqReady < sq_wait
    /\ sq_pc' = "idle"
    /\ sq_ret' = RetT(sq_ret.op, "Err", 4, sq_ret.enters, -4)
    /\ UNCHANGED <<reg_vars, iter, base, sqpoll, sq_vars, cq_vars, inflight, sqe, batch, cqe,
                   sq_wait, cq_pc, cq_ret, got>>

\* SubmissionQueue::submit_and_wait_with_timeout: one turn of its loop.  When
\* a slot is free it becomes the timeout request and the call goes on to
\* io_uring_submit_and_wait; otherwise submit() flushes the ring and, unless
\* it failed, the loop turns again.
SubmitAndWaitWithTimeout(wait_for) ==
    /\ sq_pc \in {"idle", "swt"}
    /\ Claimed < MaxOps
    /\ sq_pc = "swt" => wait_for = sq_wait
    /\ LET enters == IF sq_pc = "swt" THEN sq_ret.enters ELSE 0
       IN  IF GetSqeFits
           THEN LET slots1 == WriteSlot(sqes, BitAnd(sqe_tail, Mask),
                                 SetUserDataSlot(PrepTimeoutSlot(Zeroed),
                                                 LIBURING_UDATA_TIMEOUT))
                    tail1 == Wrap(sqe_tail + 1)
                IN  /\ sqes' = slots1
                    /\ sqe_tail' = tail1
                    /\ TransportSubmit("submit_and_wait_with_timeout", slots1,
                                       tail1, wait_for, enters)
                    /\ sq_pc' = IF sq_ret'.kind = "Ok" /\ wait_for > 0
                                THEN "wait" ELSE "idle"
           ELSE /\ TransportSubmit("swt_flush", sqes, sqe_tail, 0, enters)
                /\ sq_pc' = IF sq_ret'.kind = "Ok" THEN "swt" ELSE "idle"
                /\ UNCHANGED <<sqes, sqe_tail>>
    /\ sq_wait' = wait_for
    /\ sqe' = NoHandle
    /\ batch' = NoBatch
    /\ UNCHANGED <<reg_vars, iter, base, sqpoll, cq_vars, cqe, cq_pc, cq_ret, got>>

----
(* The completion side *)

\* the arrival number after `g`
NextArrival(g) == IF g = -1 THEN 0 ELSE Wrap(g + 1)

\* io_uring_cq_advance
CqAdvance(n) == Wrap(cq_khead + n)

\* is_timeout that finds no timeout
IsTimeoutNever(c) == FALSE
\* CompletionQueueEvent::is_timeout
IsTimeout(c) == c.user_data = LIBURING_UDATA_TIMEOUT

\* peek without the test for a null cqe
PeekForCqeNoNullCheck ==
    /\ Running
    /\ cq_pc = "idle"
    /\ cqe = NoCqe
    /\ cqe' = [ring |-> TRUE, at |-> BitAnd(cq_khead, CqMask)]
    /\ cq_ret' = Ret("peek_for_cqe", "Some", BitAnd(cq_khead, CqMask))
    /\ got' = cqes[BitAnd(cq_khead, CqMask)].seq
    /\ UNCHANGED <<reg_vars, iter, base, sqpoll, sq_vars, cq_vars, inflight, sqe, batch,
                   sq_pc, sq_wait, cq_pc, sq_ret>>
\* CompletionQueue::peek_for_cqe, CompletionQueueEvent::peek
PeekForCqe ==
    /\ Running
    /\ cq_pc = "idle"
    /\ cqe = NoCqe
    /\ IF cq_ktail # cq_khead
       THEN /\ cqe' = [ring |-> TRUE, at |-> BitAnd(cq_khead, CqMask)]
            /\ cq_ret' = Ret("peek_for_cqe", "Some", BitAnd(cq_khead, CqMask))
            /\ got' = cqes[BitAnd(cq_khead, CqMask)].seq
       ELSE /\ cq_ret' = Ret("peek_for_cqe", "None", 0)
            /\ UNCHANGED <<cqe, got>>
    /\ UNCHANGED <<reg_vars, iter, base, sqpoll, sq_vars, cq_vars, inflight, sqe, batch,
                   sq_pc, sq_wait, cq_pc, sq_ret>>

\* drop without io_uring_cqe_seen
DropCqeNoSeen ==
    /\ Running
    /\ cqe # NoCqe
    /\ cqe' = NoCqe
    /\ UNCHANGED <<reg_vars, iter, base, sqpoll, sq_vars, cq_vars, inflight, sqe, batch,
                   sq_pc, sq_wait, cq_pc, sq_ret, cq_ret, got>>
\* Drop for CompletionQueueEvent: io_uring_cqe_seen unless ring is null
DropCqe ==
    /\ Running
    /\ cqe # NoCqe
    /\ cq_khead' = IF cqe.ring THEN CqAdvance(1) ELSE cq_khead
    /\ cqe' = NoCqe
    /\ UNCHANGED <<reg_vars, iter, base, sqpoll, sq_vars, cq_ktail, cqes, inflight, sqe, batch,
                   sq_pc, sq_wait, cq_pc, sq_ret, cq_ret, got>>

\* CompletionQueue::wait_for_cqe: one turn of its loop.  The wait blocks
\* until a completion is ready or fails; a timeout's completion is dropped
\* (and so marked seen) and the loop turns again.
WaitForCqe ==
    /\ Running
    /\ cq_pc \in {"idle", "wait_for_cqe"}
    /\ cqe = NoCqe
    /\ \/ /\ cq_ktail # cq_khead
          /\ IF ~IsTimeout(cqes[BitAnd(cq_khead, CqMask)])
             THEN /\ cqe' = [ring |-> TRUE, at |-> BitAnd(cq_khead, CqMask)]
                  /\ cq_ret' = Ret("wait_for_cqe", "Ok", BitAnd(cq_khead, CqMask))
                  /\ got' = cqes[BitAnd(cq_khead, CqMask)].seq
                  /\ cq_pc' = "idle"
                  /\ UNCHANGED cq_khead
             ELSE /\ cq_khead' = CqAdvance(1)
                  /\ cq_ret' = Ret("wait", "None", 0)
                  /\ got' = cqes[BitAnd(cq_khead, CqMask)].seq
                  /\ cq_pc' = "wait_for_cqe"
                  /\ UNCHANGED cqe
       \/ /\ cq_ktail = cq_khead
          /\ \E e \in Errnos :
                cq_ret' = RetT("wait_for_cqe", Resultify(-e).kind,
                               Resultify(-e).val, 1, -e)
          /\ cq_pc' = "idle"
          /\ UNCHANGED <<cq_khead, cqe, got>>
    /\ UNCHANGED <<reg_vars, iter, base, sqpoll, sq_vars, cq_ktail, cqes, inflight, sqe, batch,
                   sq_pc, sq_wait, sq_ret>>

----
(* Batches of completions: CompletionQueueEvents *)

\* io_uring_wait_cqes: what it answers once `count` completions are ready.
\* liburing answers 0; the transport interface of the specification answers
\* with the number available.
WaitCqesAnswers(count) == {0, CqReady}

\* a read of cq.cqes through a raw pointer: past the end of the array it
\* finds whatever lies there
ReadCqe(p) ==
    IF p < CqEntries THEN {cqes[p]}
    ELSE {[user_data |-> u, res |-> 0, seq |-> -1] : u \in {0, LIBURING_UDATA_TIMEOUT}}

\* CompletionQueueEvents::peek, CompletionQueue::peek_for_cqes
PeekForCqes ==
    /\ Running
    /\ cq_pc = "idle"
    /\ cqe = NoCqe
    /\ ~iter.live
    /\ iter' = [NoIter EXCEPT !.live = TRUE, !.head0 = cq_khead]
    /\ cq_ret' = Ret("peek_for_cqes", "Ok", 0)
    /\ UNCHANGED <<reg_vars, base, sqpoll, sq_vars, cq_vars, inflight, sqe, batch,
                   cqe, sq_pc, sq_wait, cq_pc, sq_ret, got>>

\* CompletionQueueEvents::wait, CompletionQueue::wait_for_cqes: blocks
\* until `count` completions are ready or fails
WaitForCqesBatch(count) ==
    /\ Running
    /\ cq_pc = "idle"
    /\ cqe = NoCqe
    /\ ~iter.live
    /\ \/ /\ CqReady >= count
          /\ \E available \in WaitCqesAnswers(count) :
                /\ iter' = IF available # 0
                           THEN [NoIter EXCEPT !.live = TRUE, !.head0 = cq_khead,
                                               !.available = available,
                                               !.ptr = BitAnd(cq_khead, CqMask)]
                           ELSE [NoIter EXCEPT !.live = TRUE, !.head0 = cq_khead]
                /\ cq_ret' = Ret("wait", Resultify(available).kind, available)
       \/ /\ CqReady < count
          /\ \E e \in Errnos :
                cq_ret' = RetT("wait", Resultify(-e).kind,
                               Resultify(-e).val, 1, -e)
          /\ UNCHANGED iter
    /\ UNCHANGED <<reg_vars, base, sqpoll, sq_vars, cq_vars, inflight, sqe, batch,
                   cqe, sq_pc, sq_wait, cq_pc, sq_ret, got>>

\* self.ptr.offset(1)
NextPtr(p) == p + 1

\* the test of next_cqe for a completion to skip
SkipsTimeout(c) == IsTimeout(c)

\* CompletionQueueEvents::next_cqe: one turn of its loop (for_each and
\* try_for_each call it until it returns None or the callback fails).  A
\* read past the end of cq.cqes finds anything, or faults.
NextCqe ==
    /\ Running
    /\ cq_pc \in {"idle", "next_cqe"}
    /\ cqe = NoCqe
    /\ iter.live
    /\ LET refill == iter.available = 0
           available == IF refill THEN CqReady - iter.seen ELSE iter.available
           ptr == IF refill /\ iter.ptr = NullPtr /\ available # 0
                  THEN BitAnd(cq_khead, CqMask) ELSE iter.ptr
       IN IF available = 0
          THEN /\ iter' = [iter EXCEPT !.available = 0]
               /\ cq_ret' = Ret("next_cqe", "None", 0)
               /\ cq_pc' = "idle"
               /\ UNCHANGED <<cqe, got, sq_pc>>
          ELSE /\ \E c \in ReadCqe(ptr) :
                    /\ iter' = [iter EXCEPT !.ptr = NextPtr(ptr),
                                            !.available = available - 1,
                                            !.seen = @ + 1,
                                            !.taken = @ + 1,
                                            !.handled = IF SkipsTimeout(c) /\ iter.handler
                                                        THEN @ + 1 ELSE @,
                                            !.last = c.user_data]
                    /\ got' = c.seq
                    /\ IF SkipsTimeout(c)
                       THEN /\ cq_ret' = Ret("next_cqe", "Skip", ptr)
                            /\ cq_pc' = "next_cqe"
                            /\ UNCHANGED cqe
                       ELSE /\ cq_ret' = Ret("next_cqe", "Some", ptr)
                            /\ cq_pc' = "idle"
                            /\ cqe' = [ring |-> FALSE, at |-> ptr]
               /\ \/ sq_pc' = sq_pc
                  \/ ptr >= CqEntries /\ sq_pc' = "fault"
    /\ UNCHANGED <<reg_vars, base, sqpoll, sq_vars, cq_vars, inflight, sqe, batch,
                   sq_wait, sq_ret>>

\* advance_queue that keeps `seen`
AdvanceQueueKeepsSeen ==
    /\ Running
    /\ cq_pc = "idle"
    /\ cqe = NoCqe
    /\ iter.live
    /\ cq_khead' = CqAdvance(iter.seen)
    /\ cq_ret' = Ret("advance_queue", "Unit", iter.seen)
    /\ UNCHANGED <<reg_vars, iter, base, sqpoll, sq_vars, cq_ktail, cqes, inflight, sqe,
                   batch, cqe, sq_pc, sq_wait, cq_pc, sq_ret, got>>
\* CompletionQueueEvents::advance_queue
AdvanceQueue ==
    /\ Running
    /\ cq_pc = "idle"
    /\ cqe = NoCqe
    /\ iter.live
    /\ cq_khead' = CqAdvance(iter.seen)
    /\ iter' = [iter EXCEPT !.seen = 0]
    /\ cq_ret' = Ret("advance_queue", "Unit", iter.seen)
    /\ UNCHANGED <<reg_vars, base, sqpoll, sq_vars, cq_ktail, cqes, inflight, sqe,
                   batch, cqe, sq_pc, sq_wait, cq_pc, sq_ret, got>>

\* CompletionQueueEvents::handle_timeouts
HandleTimeouts ==
    /\ Running
    /\ cq_pc = "idle"
    /\ cqe = NoCqe
    /\ iter.live
    /\ ~iter.handler
    /\ iter' = [iter EXCEPT !.handler = TRUE]
    /\ cq_ret' = Ret("handle_timeouts", "Unit", 0)
    /\ UNCHANGED <<reg_vars, base, sqpoll, sq_vars, cq_vars, inflight, sqe, batch,
                   cqe, sq_pc, sq_wait, cq_pc, sq_ret, got>>

\* Drop for CompletionQueueEvents.  The completions it handed out borrow
\* it: they are released first.
DropCqes ==
    /\ Running
    /\ cq_pc = "idle"
    /\ iter.live
    /\ cqe = NoCqe
    /\ cq_khead' = CqAdvance(iter.seen)
    /\ iter' = NoIter
    /\ cq_ret' = Ret("drop", "Unit", iter.seen)
    /\ UNCHANGED <<reg_vars, base, sqpoll, sq_vars, cq_ktail, cqes, inflight, sqe,
                   batch, cqe, sq_pc, sq_wait, cq_pc, sq_ret, got>>

\* the wait with a timeout that does not compare the rings: whatever the
\* submission queue it was given, it goes on to claim the slot of its timeout
WaitWithTimeoutNoAssert(op, count, same) ==
    /\ Running
    /\ cq_pc = "idle" /\ sq_pc = "idle"
    /\ cqe = NoCqe /\ ~iter.live
    /\ cq_ret' = Ret(op, "Ok", count)
    /\ sqe_tail' = Wrap(sqe_tail + 1)
    /\ UNCHANGED <<reg_vars, iter, base, sqpoll, sq_khead, sq_ktail, sqe_head,
                   sq_array, sqes, cq_vars, inflight, sqe, batch, cqe, sq_pc,
                   sq_wait, cq_pc, sq_ret, got>>
\* CompletionQueue::wait_for_cqe_with_timeout and
\* wait_for_cqes_with_timeout, called with the submission queue of this
\* ring (same) or of another one when a slot is free and the completions
\* waited for are ready: the assertion, then io_uring_wait_cqes with a
\* timespec, which puts a timeout in a slot of the ring, submits and waits
WaitWithTimeout(op, count, same) ==
    LET slots1 == WriteSlot(sqes, BitAnd(sqe_tail, Mask),
                            SetUserDataSlot(PrepTimeoutSlot(Zeroed),
                                            LIBURING_UDATA_TIMEOUT))
        head == BitAnd(cq_khead, CqMask)
    IN  /\ Running
        /\ cq_pc = "idle" /\ sq_pc = "idle"
        /\ cqe = NoCqe /\ ~iter.live
        /\ IF ~same
           THEN /\ cq_ret' = Ret(op, "Panic", count)
                /\ UNCHANGED <<sq_vars, cq_khead, inflight, sqe, batch, cqe,
                               sq_ret, got, iter>>
           ELSE /\ Claimed < MaxTagged
                /\ GetSqeFits
                /\ CqReady >= count
                /\ sqes' = slots1
                /\ sqe_tail' = Wrap(sqe_tail + 1)
                /\ TransportSubmit(op, slots1, Wrap(sqe_tail + 1), count, 0)
                /\ sqe' = NoHandle
                /\ batch' = NoBatch
                /\ IF sq_ret'.kind = "Err"
                   THEN /\ cq_ret' = RetT(op, "Err", sq_ret'.val, 1, sq_ret'.raw)
                        /\ UNCHANGED <<cq_khead, cqe, got, iter>>
                   ELSE IF op = "wait_for_cqes_with_timeout"
                   THEN /\ \E available \in WaitCqesAnswers(count) :
                            /\ iter' = [NoIter EXCEPT
                                            !.live = TRUE, !.head0 = cq_khead,
                                            !.available = available,
                                            !.ptr = IF available # 0 THEN head
                                                    ELSE NullPtr]
                            /\ cq_ret' = Ret(op, "Ok", available)
                        /\ UNCHANGED <<cq_khead, cqe, got>>
                   ELSE /\ got' = cqes[head].seq
                        /\ iter' = iter
                        /\ IF IsTimeout(cqes[head])
                           THEN /\ cq_ret' = Ret(op, "None", 0)
                                /\ cq_khead' = CqAdvance(1)
                                /\ cqe' = cqe
                           ELSE /\ cq_ret' = Ret(op, "Some", head)
                                /\ cqe' = [ring |-> TRUE, at |-> head]
                                /\ cq_khead' = cq_khead
        /\ UNCHANGED <<reg_vars, base, sqpoll, cq_ktail, cqes, sq_pc, sq_wait,
                       cq_pc>>

\* io_uring_wait_cqes for one handle: blocks until wait_nr completions are
\* ready, or fails.  With nothing to wait for and nothing ready it fails or
\* leaves a null cqe, which the caller dereferences.
WaitCqes(op, count, wait_nr) ==
    /\ Running
    /\ cq_pc = "idle"
    /\ cqe = NoCqe
    /\ ~iter.live
    /\ \/ /\ CqReady >= wait_nr
          /\ cqe' = [ring |-> TRUE, at |-> BitAnd(cq_khead, CqMask)]
          /\ cq_ret' = Ret(op, Resultify(0).kind, count)
          /\ got' = IF CqReady > 0 THEN cqes[BitAnd(cq_khead, CqMask)].seq ELSE got
          /\ sq_pc' = IF CqReady > 0 THEN sq_pc ELSE "fault"
       \/ /\ CqReady < wait_nr \/ CqReady = 0
          /\ \E e \in Errnos :
                cq_ret' = RetT(op, Resultify(-e).kind, Resultify(-e).val, 1, -e)
          /\ UNCHANGED <<cqe, got, sq_pc>>
    /\ UNCHANGED <<reg_vars, iter, base, sqpoll, sq_vars, cq_vars, inflight, sqe,
                   batch, sq_wait, cq_pc, sq_ret>>

\* wait_for_cqes that waits for one completion whatever the count
WaitForCqesOne(count) == WaitCqes("wait_for_cqes", count, 1)
\* IoUring::wait_for_cqes, CompletionQueue::wait_for_cqes (one handle)
WaitForCqes(count) == WaitCqes("wait_for_cqes", count, count)

----
(* The registrar of files *)

\* usize, narrower here as the ring's counters are, and wider than them
UsizeMod == 2 * WordMod

\* CompletionQueueEvents::wait_for_cqes: waits for `count` completions past
\* the ones already taken, then sets available = ready - seen in a usize.
\* Below zero the subtraction panics where overflow is checked and wraps
\* where it is not.
EventsWaitForCqes(count) ==
    /\ Running
    /\ cq_pc = "idle"
    /\ cqe = NoCqe
    /\ iter.live
    /\ \/ /\ CqReady >= count + iter.seen
          /\ \E ready \in WaitCqesAnswers(count + iter.seen), checks \in BOOLEAN :
                IF ready < iter.seen /\ checks
                THEN /\ cq_ret' = Ret("events_wait_for_cqes", "Panic", count)
                     /\ UNCHANGED iter
                ELSE LET available == (ready - iter.seen) % UsizeMod
                     IN /\ iter' = [iter EXCEPT
                                      !.available = available,
                                      !.ptr = IF available # 0 /\ @ = NullPtr
                                              THEN BitAnd(cq_khead, CqMask) ELSE @]
                        /\ cq_ret' = Ret("events_wait_for_cqes", "Ok", count)
       \/ /\ CqReady < count + iter.seen
          /\ \E e \in Errnos :
                cq_ret' = RetT("events_wait_for_cqes", Resultify(-e).kind,
                               Resultify(-e).val, 1, -e)
          /\ UNCHANGED iter
    /\ UNCHANGED <<reg_vars, base, sqpoll, sq_vars, cq_vars, inflight, sqe, batch,
                   cqe, sq_pc, sq_wait, cq_pc, sq_ret, got>>

\* RawFd: the placeholder, an open file, and a descriptor that is not open
PlaceholderFd == -1
Fds == {PlaceholderFd, 3, -100}
OpenFd(fd) == fd = PlaceholderFd \/ fd >= 0

\* the slices of files a caller passes
RECURSIVE SeqsUpTo(_, _)
SeqsUpTo(S, n) ==
    IF n = 0 THEN {<<>>}
    ELSE LET shorter == SeqsUpTo(S, n - 1)
         IN  shorter \cup {Append(q, x) : q \in {r \in shorter : Len(r) = n - 1}, x \in S}
FileSlices == SeqsUpTo(Fds, MaxFiles)

\* the offsets a caller passes: in the table, at its end, past it, and the
\* largest usize
Offsets == (0 .. MaxFiles + 1) \cup {UsizeMod - 1}

\* io_uring_register_files: the kernel takes the whole set or none of it
KernelRegisterFiles(files) ==
    IF kfiles # <<>> THEN -16
    ELSE IF \E i \in 1 .. Len(files) : ~OpenFd(files[i]) THEN -9
    ELSE 0

\* io_uring_register_files_update: the number of files updated, or an error
KernelRegisterFilesUpdate(off, files) ==
    IF kfiles = <<>> THEN -6
    ELSE IF off + Len(files) > Len(kfiles) THEN -22
    ELSE IF \E i \in 1 .. Len(files) : ~OpenFd(files[i]) THEN -9
    ELSE Len(files)

\* io_uring_unregister_files
KernelUnregisterFiles == IF kfiles = <<>> THEN -6 ELSE 0

\* the kernel's table after an update
UpdatedTable(off, files) ==
    [i \in 1 .. Len(kfiles) |->
        IF i > off /\ i <= off + Len(files) THEN files[i - off] ELSE kfiles[i]]

\* IoUring::registrar, Registrar::new
NewRegistrar ==
    /\ num_reg_files' = 0
    /\ reg_ret' = RegRet("registrar", "Ok", "", 0, FALSE, <<>>, num_reg_files, 0,
                         <<>>, [op |-> reg_ret.op, kind |-> reg_ret.kind])
    /\ UNCHANGED <<ring_vars, iter, kfiles, kreg>>

\* RegisteredFd::new without the placeholder
RegisteredFdNewNoPlaceholder(index, fd) == index
\* RegisteredFd::new: the index of the handle
RegisteredFdNew(index, fd) == IF fd = -1 THEN -1 ELSE index

\* the handles of files registered from `off` on
Handles(off, files) ==
    [i \in 1 .. Len(files) |-> RegisteredFdNew((i - 1) + off, files[i])]

\* register_files without the test for a fileset it already holds
RegisterFilesRefusalNoHeld(files) ==
    IF files = <<>> THEN "InvalidInput" ELSE ""
\* the tests of register_files before it calls the kernel
RegisterFilesRefusal(files) ==
    IF files = <<>> THEN "InvalidInput"
    ELSE IF num_reg_files # 0 THEN "Other"
    ELSE ""

\* Registrar::register_files
RegisterFiles(files) ==
    LET ret(kind, err, val, kernel, handles) ==
            RegRet("register_files", kind, err, val, kernel, handles,
                   num_reg_files, 0, files, [op |-> reg_ret.op, kind |-> reg_ret.kind])
        x == KernelRegisterFiles(files)
    IN  /\ IF RegisterFilesRefusal(files) # ""
           THEN /\ reg_ret' = ret("Err", RegisterFilesRefusal(files), 0, FALSE, <<>>)
                /\ UNCHANGED <<num_reg_files, kfiles>>
           ELSE IF Resultify(x).kind = "Err"
           THEN /\ reg_ret' = ret("Err", "Os", Resultify(x).val, TRUE, <<>>)
                /\ UNCHANGED <<num_reg_files, kfiles>>
           ELSE /\ num_reg_files' = Len(files)
                /\ kfiles' = files
                /\ reg_ret' = ret("Ok", "", 0, TRUE, Handles(0, files))
        /\ UNCHANGED <<ring_vars, iter, kreg>>

\* the tests of update_registered_files before it calls the kernel; the sum
\* is a usize
UpdateRefusal(offset, files) ==
    IF num_reg_files = 0 THEN "Other"
    ELSE IF (offset + Len(files)) % UsizeMod > num_reg_files THEN "InvalidInput"
    ELSE ""

\* Registrar::update_registered_files.  A sum that overflows usize panics
\* in a build with overflow checks and wraps in one without; the kernel
\* takes the offset as a u32.
UpdateWith(offset, files, size_after) ==
    LET ret(kind, err, val, kernel, handles) ==
            RegRet("update_registered_files", kind, err, val, kernel, handles,
                   num_reg_files, offset, files, [op |-> reg_ret.op, kind |-> reg_ret.kind])
        x == KernelRegisterFilesUpdate(offset % WordMod, files)
    IN  /\ \/ /\ num_reg_files # 0
              /\ offset + Len(files) >= UsizeMod
              /\ reg_ret' = ret("Panic", "", 0, FALSE, <<>>)
              /\ UNCHANGED <<num_reg_files, kfiles>>
           \/ IF UpdateRefusal(offset, files) # ""
              THEN /\ reg_ret' = ret("Err", UpdateRefusal(offset, files), 0, FALSE, <<>>)
                   /\ UNCHANGED <<num_reg_files, kfiles>>
              ELSE IF Resultify(x).kind = "Err"
              THEN /\ reg_ret' = ret("Err", "Os", Resultify(x).val, TRUE, <<>>)
                   /\ UNCHANGED <<num_reg_files, kfiles>>
              ELSE /\ kfiles' = UpdatedTable(offset % WordMod, files)
                   /\ reg_ret' = ret("Ok", "", 0, TRUE, Handles(offset, files))
                   /\ num_reg_files' = size_after
        /\ UNCHANGED <<ring_vars, iter, kreg>>

\* an update that takes the number of files updated for the size
UpdateRegisteredFilesResizes(offset, files) == UpdateWith(offset, files, Len(files))
\* update_registered_files does not assign num_reg_files
UpdateRegisteredFiles(offset, files) == UpdateWith(offset, files, num_reg_files)

\* io_uring_register_buffers, io_uring_register_eventfd and their
\* unregistrations: the kernel holds at most one of each
KernelRegister(what, nr) ==
    IF nr = 0 THEN -22 ELSE IF kreg[what] THEN -16 ELSE 0
KernelUnregister(what) == IF kreg[what] THEN 0 ELSE -6

\* a call of the registrar that goes to the kernel with `&self`: it has no
\* access to num_reg_files
RegistrarCall(op, what, x, registered) ==
    /\ reg_ret' = RegRet(op, Resultify(x).kind,
                         IF Resultify(x).kind = "Err" THEN "Os" ELSE "",
                         IF Resultify(x).kind = "Err" THEN Resultify(x).val ELSE 0,
                         TRUE, <<>>, num_reg_files, 0, <<>>,
                         [op |-> reg_ret.op, kind |-> reg_ret.kind])
    /\ kreg' = IF Resultify(x).kind = "Ok" THEN [kreg EXCEPT ![what] = registered]
               ELSE kreg
    /\ UNCHANGED <<ring_vars, iter, num_reg_files, kfiles>>

\* Registrar::register_buffers, with nr buffers
RegisterBuffers(nr) ==
    RegistrarCall("register_buffers", "buffers", KernelRegister("buffers", nr), TRUE)
\* Registrar::unregister_buffers
UnregisterBuffers ==
    RegistrarCall("unregister_buffers", "buffers", KernelUnregister("buffers"), FALSE)
\* Registrar::register_eventfd
RegisterEventfd ==
    RegistrarCall("register_eventfd", "eventfd", KernelRegister("eventfd", 1), TRUE)
\* Registrar::unregister_eventfd
UnregisterEventfd ==
    RegistrarCall("unregister_eventfd", "eventfd", KernelUnregister("eventfd"), FALSE)

\* unregister_files that keeps num_reg_files
UnregisterFilesKeepsSize ==
    LET ret(kind, err, val, kernel) ==
            RegRet("unregister_files", kind, err, val, kernel, <<>>,
                   num_reg_files, 0, <<>>, [op |-> reg_ret.op, kind |-> reg_ret.kind])
        x == KernelUnregisterFiles
    IN  /\ IF num_reg_files = 0
           THEN /\ reg_ret' = ret("Err", "Other", 0, FALSE)
                /\ UNCHANGED <<num_reg_files, kfiles>>
           ELSE IF Resultify(x).kind = "Err"
           THEN /\ reg_ret' = ret("Err", "Os", Resultify(x).val, TRUE)
                /\ UNCHANGED <<num_reg_files, kfiles>>
           ELSE /\ kfiles' = <<>>
                /\ reg_ret' = ret("Ok", "", 0, TRUE)
                /\ UNCHANGED num_reg_files
        /\ UNCHANGED <<ring_vars, iter, kreg>>
\* Registrar::unregister_files
UnregisterFiles ==
    LET ret(kind, err, val, kernel) ==
            RegRet("unregister_files", kind, err, val, kernel, <<>>,
                   num_reg_files, 0, <<>>, [op |-> reg_ret.op, kind |-> reg_ret.kind])
        x == KernelUnregisterFiles
    IN  /\ IF num_reg_files = 0
           THEN /\ reg_ret' = ret("Err", "Other", 0, FALSE)
                /\ UNCHANGED <<num_reg_files, kfiles>>
           ELSE IF Resultify(x).kind = "Err"
           THEN /\ reg_ret' = ret("Err", "Os", Resultify(x).val, TRUE)
                /\ UNCHANGED <<num_reg_files, kfiles>>
           ELSE /\ num_reg_files' = 0
                /\ kfiles' = <<>>
                /\ reg_ret' = ret("Ok", "", 0, TRUE)
        /\ UNCHANGED <<ring_vars, iter, kreg>>

----
(* The ring *)

\* the values the counters of a ring start a behaviour with: 0, for a ring
\* IoUring::new has just made, and the last value before the wrap, for a
\* ring that has since run that many rounds of one no-op each (prepare_sqe,
\* submit, peek_for_cqe, drop)
Bases == {0, WordMod - 1}

\* the arrival number of the completion that round left in completion slot i
LastArrival(b, i) ==
    IF b = 0 THEN -1
    ELSE CHOOSE a \in (b - CqEntries) .. (b - 1) : BitAnd(a, CqMask) = i

----
(* Slots: submission flags and file targets *)

\* the flag sets a caller passes
FlagSets == {IO_DRAIN, IO_LINK, BitOr(IO_LINK, ASYNC)}

\* SQE::flags
SlotFlags(s) == s.flags
\* SQE::set_flags: self.sqe.flags &= flags.bits()
SetFlagsSlot(s, flags) == [s EXCEPT !.flags = BitAnd(@, flags)]
\* SQE::set_fixed_file: self.set_flags(self.flags() | FIXED_FILE)
SetFixedFileSlot(s) == SetFlagsSlot(s, BitOr(SlotFlags(s), FIXED_FILE))

\* what a caller passes for `impl Into<RingFd>`: a RawFd, or a RegisteredFd
\* (the index of a registered file, or the placeholder)
RawTarget(fd) == [tag |-> "Raw", v |-> fd]
RegisteredTarget(index) == [tag |-> "Registered", v |-> index]

\* the panic of a conversion, in place of a RingFd
Panicked == [tag |-> "Panic", v |-> 0]

\* From<RegisteredFd> for RingFd without the panic
IntoRingFdNoPanic(item) == item
\* From<RawFd> for RingFd, From<RegisteredFd> for RingFd, which panics when
\* RegisteredFd::is_placeholder
IntoRingFd(item) ==
    IF item.tag = "Registered" /\ item.v = PlaceholderFd THEN Panicked ELSE item

\* the prep methods that take `impl Into<RingFd>`, and the opcodes they write
FileOps == {"prep_read_vectored", "prep_read_fixed", "prep_write_vectored",
            "prep_write_fixed", "prep_fsync"}
Opcode(op) ==
    CASE op = "prep_read_vectored" -> "READV"
      [] op = "prep_read_fixed" -> "READ_FIXED"
      [] op = "prep_write_vectored" -> "WRITEV"
      [] op = "prep_write_fixed" -> "WRITE_FIXED"
      [] op = "prep_fsync" -> "FSYNC"

\* io_uring_prep_rw: the operation's fields
PrepRwSlot(s, opcode, fd) ==
    [opcode |-> opcode, flags |-> 0, user_data |-> 0, fd |-> fd, addr |-> 0]

\* what a prep method returned: its name, how it ended, the slot it was
\* called on, the target it was given and what the slot held before
PrepRet(op, kind, slot, target, before) ==
    [op |-> op, kind |-> kind, val |-> slot, enters |-> 0, raw |-> 0,
     target |-> target, before |-> before]

\* SQE::prep_read_vectored, prep_read_fixed, prep_write_vectored,
\* prep_write_fixed, prep_fsync: fd.into(), the io_uring_prep_ call with
\* fd.raw(), then set_fixed_file for a registered file
PrepFile(op, target) ==
    LET fd == IntoRingFd(target)
        prepared == PrepRwSlot(ReadSlot(sqes, sqe), Opcode(op), fd.v)
    IN  /\ sq_pc = "idle"
        /\ sqe # NoHandle
        /\ IF fd = Panicked
           THEN /\ sq_ret' = PrepRet(op, "Panic", sqe, target, ReadSlot(sqes, sqe))
                /\ UNCHANGED <<sqes, sq_pc>>
           ELSE /\ sqes' = WriteSlot(sqes, sqe,
                                     IF fd.tag = "Registered"
                                     THEN SetFixedFileSlot(prepared)
                                     ELSE prepared)
                /\ sq_ret' = PrepRet(op, "Unit", sqe, target, ReadSlot(sqes, sqe))
                /\ \/ sq_pc' = sq_pc
                   \/ sqe >= Entries /\ sq_pc' = "fault"
        /\ UNCHANGED <<reg_vars, iter, base, sqpoll, sq_khead, sq_ktail, sqe_head,
                       sqe_tail, sq_array, cq_vars, inflight, sqe, batch, cqe,
                       sq_wait, cq_pc, cq_ret, got>>

\* Drop for HardLinkedSQE: set_flags(IO_HARDLINK) unless is_final
DropHardLinkedSQE ==
    /\ sq_pc = "idle"
    /\ sqe # NoHandle
    /\ batch.hard # "none"
    /\ sqes' = IF batch.hard = "link"
               THEN WriteSlot(sqes, sqe,
                              SetFlagsSlot(ReadSlot(sqes, sqe), IO_HARDLINK))
               ELSE sqes
    /\ sq_ret' = Ret("drop", batch.hard, sqe)
    /\ sqe' = NoHandle
    /\ batch' = [batch EXCEPT !.hard = "none"]
    /\ \/ sq_pc' = sq_pc
       \/ batch.hard = "link" /\ sqe >= Entries /\ sq_pc' = "fault"
    /\ UNCHANGED <<reg_vars, iter, base, sqpoll, sq_khead, sq_ktail, sqe_head,
                   sqe_tail, sq_array, cq_vars, inflight, cqe, sq_wait, cq_pc,
                   cq_ret, got>>

\* the number of the slot the handle is on among the slots claimed, from 1
\* on, and the tag a caller gives it: twice the number, plus one when the
\* caller linked the request after it to it (the handle is a HardLinkedSQE
\* that is not final, or the caller's last call was set_flags(IO_LINK))
SeqTag(marked) == 2 * (Claimed - Remaining) + (IF marked THEN 1 ELSE 0)
Marked ==
    \/ batch.hard = "link"
    \/ sq_ret.op = "set_flags" /\ sq_ret.val = IO_LINK

\* set_user_data with the tag of the slot
SetSeqTag == SetUserData(SeqTag(Marked))

\* what a method on the flags returned: its name, the flags it was given,
\* the slot it was called on and the flags the slot had before
FlagsRet(op, flags, slot, before) ==
    [op |-> op, kind |-> "Unit", val |-> flags, enters |-> 0, raw |-> 0,
     slot |-> slot, before |-> before]

\* SQE::set_flags
SetFlags(flags) ==
    HandleWriteRet(FlagsRet("set_flags", flags, sqe,
                            SlotFlags(ReadSlot(sqes, sqe))),
                   SetFlagsSlot(ReadSlot(sqes, sqe), flags))

\* SQE::overwrite_flags: self.sqe.flags = flags.bits()
OverwriteFlags(flags) ==
    HandleWriteRet(FlagsRet("overwrite_flags", flags, sqe,
                            SlotFlags(ReadSlot(sqes, sqe))),
                   [ReadSlot(sqes, sqe) EXCEPT !.flags = flags])

\* IoUring::new, IoUring::new_with_flags: a ring of Entries entries
Init ==
    /\ base \in Bases
    /\ sqpoll \in BOOLEAN
    /\ sq_khead = base
    /\ sq_ktail = base
    /\ sqe_head = base
    /\ sqe_tail = base
    /\ sq_array = [i \in 0 .. Entries - 1 |-> IF base = 0 THEN 0 ELSE i]
    /\ sqes = [i \in 0 .. Entries - 1 |-> Zeroed]
    /\ cq_khead = base
    /\ cq_ktail = base
    /\ cqes = [i \in 0 .. CqEntries - 1 |->
                  [user_data |-> 0, res |-> 0, seq |-> LastArrival(base, i)]]
    /\ inflight = <<>>
    /\ sqe = NoHandle
    /\ batch = NoBatch
    /\ cqe = NoCqe
    /\ sq_pc = "idle"
    /\ sq_wait = 0
    /\ cq_pc = "idle"
    /\ sq_ret = Ret("new", "Ok", 0)
    /\ cq_ret = Ret("new", "Ok", 0)
    /\ got = IF base = 0 THEN -1 ELSE base - 1
    /\ iter = NoIter
    /\ num_reg_files = 0
    /\ kfiles = <<>>
    /\ kreg = [buffers |-> FALSE, eventfd |-> FALSE]
    /\ reg_ret = RegRet("registrar", "Ok", "", 0, FALSE, <<>>, 0, 0, <<>>,
                        [op |-> "new", kind |-> "Ok"])

\* a caller of the ring's index protocol: single slots and batches, submit
\* and submit_and_wait, peek, wait and release of completions
Next ==
    \/ PrepareSqe
    \/ \E count \in Counts : PrepareSqes(count)
    \/ Consume
    \/ Submit
    \/ \E wait_for \in WaitCounts : SubmitAndWait(wait_for)
    \/ WaitReturn
    \/ WaitInterrupted
    \/ KernelConsume
    \/ KernelComplete
    \/ PeekForCqe
    \/ DropCqe
    \/ WaitForCqe

Spec == Init /\ [][Next]_vars

\* a caller that submits with a timeout (tests/timeout.rs)
NextTimeout ==
    \/ PrepareSqe
    \/ Submit
    \/ \E wait_for \in WaitCounts : SubmitAndWait(wait_for)
    \/ \E wait_for \in WaitCounts : SubmitAndWaitWithTimeout(wait_for)
    \/ WaitReturn
    \/ WaitInterrupted
    \/ KernelConsume
    \/ KernelComplete
    \/ PeekForCqe
    \/ DropCqe

\* a fresh ring
InitFresh == Init /\ base = 0

SpecTimeout == InitFresh /\ [][NextTimeout]_vars

\* the same caller, whose thread goes on turning the loop of
\* submit_and_wait_with_timeout while it is in it; the kernel's polling
\* thread takes entries when it can and is not bound to
SpecTimeoutLoop ==
    /\ SpecTimeout
    /\ WF_vars(sq_pc = "swt" /\ SubmitAndWaitWithTimeout(sq_wait))

\* a caller that tags its requests, and the kernel and a consumer that go on
\* as long as they have something to do (tests/noop.rs)
NextTags ==
    \/ Claimed < MaxTagged /\ PrepareSqe
    \/ \E user_data \in UserData : SetUserData(user_data)
    \/ Submit
    \/ KernelConsume
    \/ KernelComplete
    \/ PeekForCqe
    \/ DropCqe

\* the counts a caller waits for
WaitCqeCounts == 0 .. Entries

\* a caller that takes its completions in batches (tests/cqe_iterator.rs)
NextIter ==
    \/ Claimed < MaxTagged /\ PrepareSqe
    \/ Submit
    \/ KernelConsume
    \/ KernelComplete
    \/ PeekForCqes
    \/ \E count \in WaitCqeCounts : WaitForCqesBatch(count)
    \/ NextCqe
    \/ AdvanceQueue
    \/ HandleTimeouts
    \/ DropCqes
    \/ DropCqe
    \/ \E count \in WaitCqeCounts : WaitForCqes(count)

SpecIter == Init /\ [][NextIter]_vars

\* a caller that takes in batches the completions of requests some of which
\* carry the tag of a timeout
SpecIterTimeout ==
    InitFresh
    /\ [][\/ Claimed < MaxTagged /\ PrepareSqe
          \/ SetUserData(LIBURING_UDATA_TIMEOUT)
          \/ Submit
          \/ KernelConsume
          \/ KernelComplete
          \/ PeekForCqes
          \/ NextCqe
          \/ AdvanceQueue
          \/ HandleTimeouts
          \/ DropCqes
          \/ DropCqe]_vars

\* IoUring::new and its registrar
InitRegistrar == InitFresh /\ ~sqpoll

\* a caller that waits for more completions in the middle of a batch
SpecEventsWait ==
    InitRegistrar
    /\ [][\/ Claimed <= MaxSlots /\ PrepareSqe
          \/ Submit
          \/ KernelComplete
          \/ PeekForCqes
          \/ iter.taken <= MaxSlots /\ NextCqe
          \/ \E count \in WaitCqeCounts : EventsWaitForCqes(count)
          \/ AdvanceQueue
          \/ DropCqes
          \/ DropCqe]_vars

\* the slices of a caller whose descriptors are an open file and one that
\* is not open
PlainSlices == SeqsUpTo({3, -100}, MaxFiles)

\* a caller of all the registrar's methods on one ring
SpecRegistrarAll ==
    InitRegistrar
    /\ [][\/ NewRegistrar
          \/ \E files \in PlainSlices : RegisterFiles(files)
          \/ \E offset \in Offsets, files \in PlainSlices : UpdateRegisteredFiles(offset, files)
          \/ UnregisterFiles
          \/ \E nr \in 0 .. 1 : RegisterBuffers(nr)
          \/ UnregisterBuffers
          \/ RegisterEventfd
          \/ UnregisterEventfd]_vars

\* a caller of the registrar of a fresh ring
SpecRegistrar ==
    InitRegistrar
    /\ [][\/ NewRegistrar
          \/ \E files \in FileSlices : RegisterFiles(files)
          \/ \E offset \in Offsets, files \in FileSlices : UpdateRegisteredFiles(offset, files)
          \/ UnregisterFiles]_vars

\* a caller that prepares operations on files and sets flags on the slots it
\* claims one at a time (tests/fixed-file-write.rs)
SpecSlot ==
    InitRegistrar
    /\ [][\/ Claimed < MaxSlots /\ PrepareSqe
          \/ \E op \in FileOps, target \in {RawTarget(3), RegisteredTarget(PlaceholderFd),
                                           RegisteredTarget(1)} : PrepFile(op, target)
          \/ \E flags \in FlagSets : SetFlags(flags)
          \/ \E flags \in FlagSets : OverwriteFlags(flags)
          \/ PrepNop
          \/ Clear]_vars

\* a caller that claims slots one at a time, writes them and submits them,
\* so that the ring's slots are claimed again (tests/exhaust-queue.rs)
SpecReuse ==
    InitRegistrar
    /\ [][\/ Claimed < MaxTagged /\ PrepareSqe
          \/ PrepFile("prep_fsync", RawTarget(3))
          \/ SetUserData(1)
          \/ OverwriteFlags(IO_DRAIN)
          \/ Clear
          \/ Submit]_vars

\* the caller holds no HardLinkedSQE and has taken every slot of its batch
BatchDone == batch.hard = "none" /\ Remaining = 0

\* a caller that claims batches, takes each of their slots through
\* hard_linked() or terminate(), tags them in order and submits, and a
\* kernel that completes what it holds (tests/exhaust-queue.rs)
SpecLinked ==
    InitRegistrar
    /\ [][\/ \E count \in 1 .. Entries : BatchDone /\ PrepareSqes(count)
          \/ HardLinkedNext
          \/ Terminate
          \/ PrepNop
          \/ SetSeqTag
          \/ DropHardLinkedSQE
          \/ BatchDone /\ Submit
          \/ KernelComplete]_vars

\* a caller that claims slots one at a time, prepares an fsync in each,
\* links some to the next with set_flags(IO_LINK), tags them in order and
\* submits when the last one it claimed ends a chain, and a kernel that
\* completes what it holds (the example of submission_queue.rs)
SpecLink ==
    InitRegistrar
    /\ [][\/ Claimed < MaxTagged /\ PrepareSqe
          \/ PrepFile("prep_fsync", RawTarget(3))
          \/ SetFlags(IO_LINK)
          \/ SetSeqTag
          \/ /\ sqe # NoHandle
             /\ ~Marked
             /\ ReadSlot(sqes, sqe).user_data % 2 = 0
             /\ Submit
          \/ KernelComplete]_vars

\* a submitting thread with the SubmissionQueue and a reaping thread with the
\* CompletionQueue of one ring (IoUring::queues), and the kernel
NextSplit ==
    \/ Claimed < MaxTagged /\ PrepareSqe
    \/ \E count \in 1 .. Entries : Claimed + count <= MaxTagged /\ PrepareSqes(count)
    \/ Consume
    \/ Submit
    \/ KernelConsume
    \/ KernelComplete
    \/ ~iter.live /\ PeekForCqe
    \/ ~iter.live /\ WaitForCqe
    \/ DropCqe
    \/ cqe = NoCqe /\ PeekForCqes
    \/ NextCqe
    \/ AdvanceQueue
    \/ DropCqes

SpecSplit == Init /\ [][NextSplit]_vars

\* resultify applied to every i32, in both builds
SpecResultify ==
    Init /\ [][\E x \in -(2 ^ (IntBits - 1)) .. 2 ^ (IntBits - 1) - 1,
                  checks \in BOOLEAN : CallResultify(x, checks)]_vars

\* a caller that submits with a timeout and waits for single completions
SpecWaitTimeout ==
    InitFresh /\ [][\/ Claimed < MaxTagged /\ PrepareSqe
                    \/ Submit
                    \/ Claimed < MaxTagged /\ SubmitAndWaitWithTimeout(0)
                    \/ KernelConsume
                    \/ KernelComplete
                    \/ WaitForCqe
                    \/ DropCqe]_vars

\* a caller that waits with a timeout, passing the submission queue of this
\* ring or of another one
SpecWaitWith ==
    InitFresh /\ [][\/ Claimed < MaxTagged /\ PrepareSqe
                    \/ Submit
                    \/ KernelConsume
                    \/ KernelComplete
                    \/ \E same \in BOOLEAN :
                            \/ WaitWithTimeout("wait_for_cqe_with_timeout", 1, same)
                            \/ \E count \in 0 .. 1 :
                                 WaitWithTimeout("wait_for_cqes_with_timeout",
                                                 count, same)
                    \/ DropCqe
                    \/ DropCqes]_vars

\* a caller that reserves batches of slots, takes some of them, tags the
\* ones it takes and submits, and a kernel that completes what it holds
SpecBatches ==
    InitRegistrar /\ [][\/ \E count \in 1 .. Entries : PrepareSqes(count)
                        \/ Consume
                        \/ SetUserData(1)
                        \/ Submit
                        \/ KernelComplete]_vars

\* a caller that polls a file that does not become ready and removes polls
\* by their tags, and a kernel that goes on as long as it has something to
\* complete (tests/poll.rs); nobody takes the completions
SpecPoll ==
    /\ InitRegistrar
    /\ [][\/ Claimed <= MaxSlots /\ PrepareSqe
          \/ PrepPollAdd(3)
          \/ PrepPollRemove(2)
          \/ SetSeqTag
          \/ Submit
          \/ KernelComplete]_vars
    /\ WF_vars(KernelComplete)

SpecTags ==
    /\ InitFresh
    /\ [][NextTags]_vars
    /\ WF_vars(KernelConsume)
    /\ WF_vars(KernelComplete)
    /\ WF_vars(PeekForCqe)
    /\ WF_vars(DropCqe)

----
(* The submission ring's properties *)

\* the completions marked seen since the first state
Seen == WSub(cq_khead, base)

\* C1: in every reachable state, whatever prepare_sqe, prepare_sqes(count),
\* submit and the kernel's consumption have done, the slots claimed and not
\* yet consumed, (sqe_tail - khead) modulo the counter's width, are at most
\* the ring's capacity.
C1_InFlightWithinCapacity == WSub(sqe_tail, sq_khead) <= Entries

\* the ring is full across the wrap of its counters, after a batch claimed it
C1_Witness ==
    /\ WSub(sqe_tail, sq_khead) = Entries
    /\ sqe_tail < sq_khead
    /\ sq_ret = Ret("prepare_sqes", "Some", Entries)

\* C2: once every slot claimed has been submitted and its completion marked
\* seen, the submission ring's free space is the full capacity again and no
\* completion is ready, so that prepare_sqe and a prepare_sqes of up to the
\* capacity succeed, however many rounds have gone before.
C2_CapacityConserved ==
    /\ [](Seen = Claimed =>
            /\ SpaceLeft = Entries
            /\ CqReady = 0
            /\ inflight = <<>>
            /\ sq_ktail = sqe_tail)
    /\ [][/\ (PrepareSqe /\ Seen = Claimed) => sq_ret'.kind = "Some"
          /\ \A count \in 0 .. Entries :
                (PrepareSqes(count) /\ Seen = Claimed) =>
                    /\ sq_ret'.kind = "Some"
                    /\ WSub(sqe_tail', sq_khead') = count]_vars

\* more slots than the ring has were claimed, in rounds that crossed the wrap
\* of the counters, and all their completions are marked seen
C2_Witness ==
    /\ Seen = Claimed
    /\ Claimed = MaxOps
    /\ Claimed > Entries
    /\ base = WordMod - 1

\* no submit has published a slot of the fresh ring and the kernel has taken none
Fresh == base = 0 /\ sq_ktail = 0 /\ sq_khead = 0 /\ sqe_head = 0

\* C4: on a fresh ring of Entries entries with no submit in between, a
\* prepare_sqe returns a slot exactly while fewer than Entries slots are
\* claimed, and None (a value: the caller goes on) from then on.
C4_FreshRingFillsExactly ==
    [][(PrepareSqe /\ Fresh) =>
          /\ sq_ret'.kind = (IF Claimed < Entries THEN "Some" ELSE "None")
          /\ sq_pc' = "idle"
          /\ sq_ret'.kind = "None" => sqe_tail' = sqe_tail]_vars

\* the call after the Entries-th one on a fresh ring returned None
C4_Witness ==
    /\ Fresh
    /\ sqe_tail = Entries
    /\ sq_ret = Ret("prepare_sqe", "None", 0)

\* C5: prepare_sqes(count) either reserves exactly count slots (the
\* unpublished tail advances by count and the batch has count slots) or
\* returns None and leaves the unpublished tail and every slot as they were.
C5_AllOrNothing ==
    [][\A count \in Counts : PrepareSqes(count) =>
          \/ /\ sq_ret'.kind = "Some"
             /\ sqe_tail' = Wrap(sqe_tail + count)
             /\ batch'.live /\ batch'.len = count
             /\ sqes' = sqes
          \/ /\ sq_ret'.kind = "None"
             /\ sqe_tail' = sqe_tail
             /\ ~batch'.live
             /\ sqes' = sqes]_vars

\* a batch was refused although part of it would have fitted
C5_Witness ==
    /\ sq_ret.op = "prepare_sqes"
    /\ sq_ret.kind = "None"
    /\ sq_ret.val <= Entries
    /\ SpaceLeft > 0
    /\ SpaceLeft < sq_ret.val

\* C6: every slot of a batch is a slot of the ring: the i-th one is the ring
\* slot at (tail + i) & mask, also when the range crosses the end of the array.
C6_BatchSlotsInRing ==
    batch.live =>
        \A i \in 0 .. batch.len - 1 :
            /\ batch.base + i < Entries
            /\ batch.base + i = BitAnd(batch.base + i, Mask)

\* C7 as stated: a successful submit returns the number of the slots
\* reserved since the previous submit.
C7_ReturnsReservedCount ==
    [][(Submit /\ sq_ret'.kind = "Ok") => sq_ret'.val = ToSubmit]_vars

\* C7: a successful submit publishes every slot reserved since the previous
\* submit, in the order of reservation, and leaves no slot reserved and
\* unpublished; it returns the number of entries of the queue the kernel had
\* not consumed before the call, those of earlier submits included, which is
\* at least the number of the slots it published.
C7_PublishesAllInOrder ==
    [][(Submit /\ sq_ret'.kind = "Ok") =>
          /\ sq_ktail' = sqe_tail
          /\ sqe_head' = sqe_tail
          /\ WSub(sq_ktail', sq_ktail) = ToSubmit
          /\ \A k \in 0 .. ToSubmit - 1 :
                sq_array'[BitAnd(Wrap(sq_ktail + k), Mask)]
                    = BitAnd(Wrap(sqe_head + k), Mask)
          /\ sq_ret'.val = WSub(sqe_tail, sq_khead)
          /\ sq_ret'.val >= ToSubmit]_vars

\* a submit published a whole ring of slots, across the wrap of the counters
C7_Witness ==
    /\ sq_ret = RetT("submit", "Ok", Entries, 1, Entries)
    /\ sq_ktail = sqe_tail
    /\ sq_ktail < base

----
(* The completion ring's properties *)

\* C9: peek_for_cqe returns None exactly when no completion is ready (the
\* completion ring's tail equals its head), and a peek that returns None
\* changes nothing in the ring.
C9_PeekNoneIffEmpty ==
    [][PeekForCqe =>
          /\ (cq_ret'.kind = "None") = (cq_ktail = cq_khead)
          /\ cq_pc' = "idle"
          /\ cq_ret'.kind = "None" =>
                UNCHANGED <<sq_vars, cq_vars, inflight, cqe>>]_vars

\* a peek returned None while the kernel still held a request
C9_Witness ==
    /\ cq_ret = Ret("peek_for_cqe", "None", 0)
    /\ cq_ktail = cq_khead
    /\ inflight # <<>>

\* C10: the drop of a completion handle advances the completion ring's head
\* by exactly one, and each handle peek_for_cqe or wait_for_cqe returns is
\* of the completion that arrived next after the one returned before it.
C10_ReleaseAdvancesByOne ==
    [][/\ DropCqe => cq_khead' = Wrap(cq_khead + 1)
       /\ ((PeekForCqe \/ WaitForCqe) /\ cqe' # NoCqe) =>
              /\ got' = NextArrival(got)
              /\ got' = cq_khead
              /\ cq_khead' = cq_khead]_vars

\* the second completion of a behaviour, which arrived after the counters
\* wrapped, has been returned and released
C10_Witness ==
    /\ base = WordMod - 1
    /\ got = 0
    /\ cqe = NoCqe
    /\ cq_khead = 1

----
(* Errors of the transport *)

\* the calls into the kernel the operation the submission side is in has made
EntersSoFar == IF sq_pc = "swt" THEN sq_ret.enters ELSE 0

\* C8: when the transport answers a submit, a submit_and_wait or a submit of
\* submit_and_wait_with_timeout with a negative value -e, the operation
\* returns Err(e) to its caller after that one call into the kernel: it does
\* not go on, and when the call was the flush of a full ring, no timeout
\* slot is claimed or written.
C8_ErrorSurfacesOnce ==
    [][(/\ sq_ret'.raw < 0
        /\ sq_pc # "wait"
        /\ \/ Submit
           \/ \E w \in WaitCounts : SubmitAndWait(w)
           \/ \E w \in WaitCounts : SubmitAndWaitWithTimeout(w)) =>
          /\ sq_ret'.kind = "Err"
          /\ sq_ret'.val = 0 - sq_ret'.raw
          /\ sq_ret'.val \in Errnos
          /\ sq_ret'.enters = EntersSoFar + 1
          /\ sq_pc' = "idle"
          /\ UNCHANGED <<sq_khead, inflight>>
          /\ sq_ret'.op = "swt_flush" => UNCHANGED <<sqe_tail, sqes>>]_vars

\* the flush of a full ring inside submit_and_wait_with_timeout failed with
\* EBUSY and the call returned with the ring still full of the caller's slots
C8_Witness ==
    /\ sq_ret = RetT("swt_flush", "Err", 16, 1, -16)
    /\ sq_pc = "idle"
    /\ WSub(sqe_tail, sq_khead) = Entries
    /\ \A i \in 0 .. Entries - 1 : sqes[i].opcode = "NOP"

----
(* The user data of a request *)

\* the values a slot's user_data takes: the caller's, and 0 of a cleared slot
Tags == UserData \cup {0}

\* the slots the kernel has yet to consume
Published ==
    {sq_array[BitAnd(Wrap(sq_khead + k), Mask)] : k \in 0 .. WSub(sq_ktail, sq_khead) - 1}

\* the completion slots that are ready
Ready == {BitAnd(Wrap(cq_khead + k), CqMask) : k \in 0 .. CqReady - 1}

\* the requests with user data t the kernel holds
Held(t) == Cardinality({i \in 1 .. Len(inflight) : inflight[i].user_data = t})

\* a request with user data t is submitted: the kernel holds it, or its
\* polling thread is about to take it
Submitted(t) ==
    \/ Held(t) > 0
    \/ sqpoll /\ \E p \in Published : sqes[p].user_data = t

\* a completion with user data t is ready in the completion ring
TagReady(t) == \E p \in Ready : cqes[p].user_data = t

----
(* The batch iteration's properties *)

\* C11: over the life of a batch iteration the completion ring's head
\* advances by exactly the number of completions the iteration took,
\* returned or skipped as timeouts: what advance_queue and the final discard
\* have added to the head, and what is still to be added (seen), make up the
\* number taken, the discard adds the rest, and the release of a completion
\* the iteration handed out leaves the head where it is.
C11_HeadAdvancesByTaken ==
    /\ [](iter.live => Wrap(WSub(cq_khead, iter.head0) + iter.seen) = iter.taken)
    /\ [][(iter.live /\ ~iter'.live) =>
                WSub(cq_khead', iter.head0) = iter.taken]_vars
    /\ [][(iter.live /\ cqe # NoCqe /\ cqe' = NoCqe) => cq_khead' = cq_khead]_vars

\* an iteration that was advanced after a completion, took one more and
\* was discarded
C11_Witness ==
    /\ cq_ret.op = "drop"
    /\ cq_ret.val = 1
    /\ WSub(cq_khead, base) = 2
    /\ ~iter.live

\* C12: the batch iteration takes the ready completions in ring order: the
\* k-th completion taken since the last advance of the head is the slot at
\* index (head + k) & mask, also when the ready range crosses the end of
\* cq.cqes (the completion taken last is the one `seen` counted last).
C12_TakenInRingOrder ==
    (iter.live /\ cq_ret.op = "next_cqe" /\ cq_ret.kind \in {"Some", "Skip"})
        => cq_ret.val = BitAnd(Wrap(cq_khead + iter.seen - 1), CqMask)

\* C13: wait_for_cqes(count) returns Ok only in a state where at least
\* `count` completions are ready (there may be more): the handle it returned
\* is held over at least `count` ready completions.  Until then the call does
\* not return, or returns the transport's error.
C13_WaitReturnsWithCountReady ==
    (cq_ret.op = "wait_for_cqes" /\ cq_ret.kind = "Ok" /\ cqe # NoCqe)
        => CqReady >= cq_ret.val

\* wait_for_cqes(2) has returned Ok
C13_Witness ==
    /\ cq_ret.op = "wait_for_cqes"
    /\ cq_ret.kind = "Ok"
    /\ cq_ret.val = 2
    /\ cqe # NoCqe
    /\ CqReady = 2

----
(* The timeout of submit_and_wait_with_timeout *)

\* C14: a successful submit_and_wait_with_timeout places exactly one more
\* request in the submission ring, a timeout tagged LIBURING_UDATA_TIMEOUT,
\* and publishes it before it waits; the caller's slots are left as they
\* were.  When the ring was full, the flush that comes first claims and
\* writes nothing.
C14_OneTimeoutPlaced ==
    /\ [][(/\ sq_ret'.op = "submit_and_wait_with_timeout"
           /\ sq_ret'.kind = "Ok"
           /\ sq_pc \in {"idle", "swt"}
           /\ \E w \in WaitCounts : SubmitAndWaitWithTimeout(w)) =>
             /\ sqe_tail' = Wrap(sqe_tail + 1)
             /\ sqes'[BitAnd(sqe_tail, Mask)].opcode = "TIMEOUT"
             /\ sqes'[BitAnd(sqe_tail, Mask)].user_data = LIBURING_UDATA_TIMEOUT
             /\ \A p \in 0 .. Entries - 1 :
                    p # BitAnd(sqe_tail, Mask) => sqes'[p] = sqes[p]
             /\ sq_ktail' = sqe_tail'
             /\ sq_array'[BitAnd(sqe_tail, Mask)] = BitAnd(sqe_tail, Mask)]_vars
    /\ [][sq_pc' = "swt" => UNCHANGED <<sqe_tail, sqes>>]_vars

\* the call found the ring full, flushed it, and then placed its timeout:
\* it entered the kernel twice
C14_Witness ==
    /\ sq_ret.op = "submit_and_wait_with_timeout"
    /\ sq_ret.kind = "Ok"
    /\ sq_ret.enters = 2
    /\ sqes[BitAnd(Wrap(sqe_tail - 1), Mask)].opcode = "TIMEOUT"

\* C15: the tag of the timeout never collides with a caller's tag: a ready
\* completion of a request of the caller (a no-op: its result is 0) is not
\* classified as a timeout, whatever the caller passed to set_user_data.
C15_CallerNeverTimeout ==
    \A p \in Ready : cqes[p].res = OpResult(Zeroed) => ~IsTimeout(cqes[p])

\* C16: the batch iteration never returns a completion whose tag is that of
\* a timeout: the completion of the ring it has just counted as seen and
\* returned, the one at (head + seen - 1) & mask, is not a timeout (a timeout
\* is skipped and goes to the timeout handler).
C16_NeverReturnsTimeout ==
    (iter.live /\ cq_ret.op = "next_cqe" /\ cq_ret.kind = "Some")
        => ~IsTimeout(cqes[BitAnd(Wrap(cq_khead + iter.seen - 1), CqMask)])

----
(* The registrar's properties *)

\* C17: register_files fails without a call to the kernel when its input is
\* empty or when the registrar already holds a fileset; it fails as a whole
\* when the kernel rejects a descriptor; after a failure fileset_size is what
\* it was before the call and no handle is returned.
C17_RegisterFilesFailsCleanly ==
    reg_ret.op = "register_files" =>
        /\ (reg_ret.files = <<>> \/ reg_ret.before # 0) =>
                (reg_ret.kind = "Err" /\ ~reg_ret.kernel)
        /\ (\E i \in 1 .. Len(reg_ret.files) : ~OpenFd(reg_ret.files[i])) =>
                reg_ret.kind = "Err"
        /\ reg_ret.kind = "Err" =>
                (num_reg_files = reg_ret.before /\ reg_ret.handles = <<>>)

\* a second register_files on a registrar that holds a fileset of two
C17_Witness ==
    /\ reg_ret.op = "register_files"
    /\ reg_ret.kind = "Err"
    /\ reg_ret.err = "Other"
    /\ reg_ret.files # <<>>
    /\ reg_ret.before = 2
    /\ num_reg_files = 2

\* C18: a successful register_files sets fileset_size to the number of its
\* inputs and returns one handle for each, in their order, the i-th with
\* index i; a successful update_registered_files(offset, files) returns the
\* i-th with index offset + i; a handle is a placeholder (index -1) exactly
\* when its descriptor is -1.
C18_HandlesInInputOrder ==
    (reg_ret.kind = "Ok" /\ reg_ret.op \in {"register_files", "update_registered_files"}) =>
        /\ reg_ret.op = "register_files" =>
                (num_reg_files = Len(reg_ret.files) /\ reg_ret.offset = 0)
        /\ Len(reg_ret.handles) = Len(reg_ret.files)
        /\ \A i \in 1 .. Len(reg_ret.files) :
                /\ reg_ret.files[i] # -1 =>
                        reg_ret.handles[i] = reg_ret.offset + (i - 1)
                /\ reg_ret.handles[i] = -1 <=> reg_ret.files[i] = -1

\* an update of a fileset of two with a placeholder and an open file
C18_Witness ==
    /\ reg_ret.op = "update_registered_files"
    /\ reg_ret.kind = "Ok"
    /\ reg_ret.offset = 0
    /\ reg_ret.files = <<PlaceholderFd, 3>>
    /\ reg_ret.handles = <<-1, 1>>

\* C19: update_registered_files(offset, files) fails with an error, without
\* a call to the kernel, when the registrar holds no fileset or when
\* offset + len(files) exceeds the size of the fileset, for every offset and
\* length; fileset_size is then what it was.
C19_UpdateRefusedOutOfBounds ==
    (/\ reg_ret.op = "update_registered_files"
     /\ \/ reg_ret.before = 0
        \/ reg_ret.offset + Len(reg_ret.files) > reg_ret.before) =>
        /\ reg_ret.kind = "Err"
        /\ ~reg_ret.kernel
        /\ num_reg_files = reg_ret.before

\* C20: unregister_files fails when the registrar holds no fileset; when it
\* succeeds fileset_size becomes None, and the register_files that follows,
\* with a non-empty set of any size (of descriptors the kernel accepts),
\* succeeds and fileset_size is the size of the new set.
C20_UnregisterThenRegister ==
    /\ reg_ret.op = "unregister_files" =>
            /\ reg_ret.before = 0 => reg_ret.kind = "Err"
            /\ reg_ret.kind = "Ok" => num_reg_files = 0
    /\ (/\ reg_ret.op = "register_files"
        /\ reg_ret.prev = [op |-> "unregister_files", kind |-> "Ok"]
        /\ reg_ret.files # <<>>
        /\ \A i \in 1 .. Len(reg_ret.files) : OpenFd(reg_ret.files[i])) =>
            (reg_ret.kind = "Ok" /\ num_reg_files = Len(reg_ret.files))

\* a fileset of two registered after an unregister_files that succeeded
C20_Witness ==
    /\ reg_ret.op = "register_files"
    /\ reg_ret.prev = [op |-> "unregister_files", kind |-> "Ok"]
    /\ reg_ret.kind = "Ok"
    /\ num_reg_files = 2

\* C21: the size of a registered fileset is fixed: a call of the registrar
\* that found fileset_size = Some(n) leaves it Some(n), unless the call is an
\* unregister_files that succeeded, which leaves None; and a register_files
\* that succeeded leaves Some(n) with n at least 1.
C21_FilesetSizeFixed ==
    /\ (reg_ret.op # "registrar" /\ reg_ret.before # 0) =>
            \/ num_reg_files = reg_ret.before
            \/ /\ reg_ret.op = "unregister_files"
               /\ reg_ret.kind = "Ok"
               /\ num_reg_files = 0
    /\ (reg_ret.op = "register_files" /\ reg_ret.kind = "Ok") => num_reg_files >= 1

\* an update of one entry of a fileset of two, with buffers and an eventfd
\* registered
C21_Witness ==
    /\ reg_ret.op = "update_registered_files"
    /\ reg_ret.kind = "Ok"
    /\ Len(reg_ret.files) = 1
    /\ reg_ret.before = 2
    /\ num_reg_files = 2
    /\ kreg.buffers
    /\ kreg.eventfd

----
(* The slots' properties *)

\* C22: a prep method that is given a placeholder RegisteredFd as its target
\* panics and leaves the slot it was called on as it was before the call; no
\* slot of the ring holds an operation on a file with the placeholder's -1
\* as its target.
C22_PlaceholderPanicsBeforeWrite ==
    /\ (sq_ret.op \in FileOps /\ sq_ret.target = RegisteredTarget(PlaceholderFd)) =>
            /\ sq_ret.kind = "Panic"
            /\ ReadSlot(sqes, sq_ret.val) = sq_ret.before
    /\ \A i \in 0 .. Entries - 1 :
            sqes[i].opcode \in FileOpcodes => sqes[i].fd # PlaceholderFd

\* a prep method panicked on a slot that held a write to the raw descriptor 3
\* with flags set, and the slot still holds it
C22_Witness ==
    /\ sq_ret.op \in FileOps
    /\ sq_ret.kind = "Panic"
    /\ sq_ret.before.opcode = "WRITEV"
    /\ sq_ret.before.fd = 3
    /\ sq_ret.before.flags = IO_LINK
    /\ ReadSlot(sqes, sq_ret.val) = sq_ret.before

\* C23: after a prep method that takes a file returned, the slot's target
\* field holds what RingFd::raw gives for the target (the registered index,
\* or the raw descriptor), and the slot's FIXED_FILE flag is set when the
\* target is a RegisteredFd and clear when it is a raw descriptor.
C23_FixedFileFollowsTarget ==
    (sq_ret.op \in FileOps /\ sq_ret.kind = "Unit" /\ sq_ret.val < Entries) =>
        /\ sqes[sq_ret.val].fd = sq_ret.target.v
        /\ Contains(sqes[sq_ret.val].flags, FIXED_FILE)
                <=> (sq_ret.target.tag = "Registered")

\* C24: after set_flags(f) the slot's flags are the union of the flags it
\* had before the call and f.
C24_SetFlagsIsUnion ==
    (sq_ret.op = "set_flags" /\ sq_ret.slot < Entries) =>
        sqes[sq_ret.slot].flags = BitOr(sq_ret.before, sq_ret.val)

C26_HardLinkFlags ==
    /\ (sq_ret.op = "drop" /\ sq_ret.kind = "link" /\ sq_ret.val < Entries) =>
            Contains(sqes[sq_ret.val].flags, IO_HARDLINK)
    /\ (sq_ret.op = "drop" /\ sq_ret.kind = "final" /\ sq_ret.val < Entries) =>
            ~Linked(sqes[sq_ret.val])
    /\ (sq_ret.op = "terminate" /\ sq_ret.kind = "Some" /\ sq_ret.val < Entries) =>
            ~Linked(sqes[sq_ret.val])

\* C27: the completions of a hard-linked chain arrive in submission order:
\* when the completion of a request is in the completion ring and the
\* request before it was taken through hard_linked() and was not the last of
\* its batch (its tag is odd), the kernel does not hold that request any
\* more and its completion arrived earlier.
C27_ChainCompletesInOrder ==
    \A p \in Ready :
        cqes[p].user_data >= 4 =>
            LET before == cqes[p].user_data - (cqes[p].user_data % 2) - 1
            IN  /\ \A i \in 1 .. Len(inflight) : inflight[i].user_data # before
                /\ \A q \in Ready :
                        cqes[q].user_data = before => cqes[q].seq < cqes[p].seq

\* C28: when the completion of a request B is in the completion ring and
\* the caller marked the request A submitted just before it with
\* set_flags(IO_LINK) (A's tag is odd), the kernel does not hold A any more,
\* A's completion arrived before B's, and if A's completion reports an error
\* B's reports -ECANCELED.
C28_LinkedStartsAfterSuccess ==
    \A p \in Ready :
        cqes[p].user_data >= 4 =>
            LET marked == cqes[p].user_data - (cqes[p].user_data % 2) - 1
            IN  /\ \A i \in 1 .. Len(inflight) : inflight[i].user_data # marked
                /\ \A q \in Ready :
                        cqes[q].user_data = marked =>
                            /\ cqes[q].seq < cqes[p].seq
                            /\ cqes[q].res < 0 => cqes[p].res = -125

----
(* The split ring's properties *)

\* what a thread keeps for itself: the submitting thread's handle, batch and
\* last answer, the reaping thread's handle, iteration and last answer
\* (sq_pc = "fault" is the end of the whole process)
sq_thread == <<sqe, batch, sq_wait, sq_ret>>
cq_thread == <<cqe, iter, cq_pc, cq_ret, got>>
\* the ring state the user process writes for submission
sq_written == <<sqe_tail, sq_ktail, sqe_head, sq_array, sqes>>

----
(* The orderings of the accesses to the ring's indices *)

\* a fence, a load or a store of an index, with its ordering; "Plain" is an
\* access that is not atomic
Access(what, index, order) == [what |-> what, index |-> index, order |-> order]

\* pub(crate) unsafe fn prepare_sqes, in program order:
\* atomic::fence(Ordering::Acquire), then Wrapping(*sq.khead as u32)
PrepareSqesAccesses ==
    <<Access("fence", "", "Acquire"), Access("load", "sq.khead", "Plain")>>

\* pub(crate) unsafe fn peek: io_uring_cq_ready (an acquire load of the
\* tail, less the head), then *(*ring).cq.khead
PeekAccesses ==
    <<Access("load", "cq.ktail", "Acquire"), Access("load", "cq.khead", "Plain"),
      Access("load", "cq.khead", "Plain")>>

\* the accesses of an operation of the submission side: prepare_sqes, and
\* liburing's io_uring_get_sqe and io_uring_submit
SqAccesses(op) ==
    CASE op = "prepare_sqes" -> PrepareSqesAccesses
      [] op = "prepare_sqe" -> <<Access("load", "sq.khead", "Acquire")>>
      [] op = "submit" -> <<Access("store", "sq.ktail", "Release")>>
      [] OTHER -> <<>>

\* the accesses of an operation of the completion side: peek, and
\* liburing's io_uring_cq_ready and io_uring_cq_advance
CqAccesses(op) ==
    CASE op = "peek_for_cqes" -> PeekAccesses
      [] op \in {"peek_for_cqe", "wait_for_cqe", "wait"} ->
            <<Access("load", "cq.ktail", "Acquire"),
              Access("load", "cq.khead", "Plain")>>
      [] op \in {"advance_queue", "drop"} ->
            <<Access("load", "cq.khead", "Plain"),
              Access("store", "cq.khead", "Release")>>
      [] OTHER -> <<>>

\* C30: in the operation each side ran last, every store of an index the
\* user process advances (submission tail, completion head) is a release
\* store and every load of an index the kernel advances (submission head,
\* completion tail) is an acquire load: a load with acquire ordering, or a
\* relaxed atomic load with an acquire fence after it.
C30_IndexAccessesOrdered ==
    \A accesses \in {SqAccesses(sq_ret.op), CqAccesses(cq_ret.op)} :
        \A i \in 1 .. Len(accesses) :
            /\ (/\ accesses[i].what = "store"
                /\ accesses[i].index \in {"sq.ktail", "cq.khead"})
                    => accesses[i].order = "Release"
            /\ (/\ accesses[i].what = "load"
                /\ accesses[i].index \in {"sq.khead", "cq.ktail"})
                    => \/ accesses[i].order = "Acquire"
                       \/ /\ accesses[i].order = "Relaxed"
                          /\ \E j \in i + 1 .. Len(accesses) :
                                accesses[j] = Access("fence", "", "Acquire")

----
(* The results' properties *)

\* C32: for every i32 x, resultify yields Ok(x) when x >= 0 and the error
\* of OS error code -x when x < 0, i32::MIN included.
C32_ResultifyNegates ==
    sq_ret.op = "resultify" =>
        IF sq_ret.raw >= 0
        THEN sq_ret.kind = "Ok" /\ sq_ret.val = sq_ret.raw
        ELSE sq_ret.kind = "Err" /\ sq_ret.val = -sq_ret.raw

----
(* The iterators' properties *)

----
(* The registrar's views *)

\* C34: the fileset size the Registrar in use records is the number of
\* entries of the kernel's table of registered files (none for no table),
\* also when the Registrar was obtained after another one registered.
C34_FilesetSizeMatchesKernel == num_reg_files = Len(kfiles)

----
(* The published slots *)

\* C35: when submit publishes slots, no slot of the batch reserved by
\* prepare_sqes that was not taken from the batch holds what an earlier
\* use of its ring index left: it is zeroed or a no-op.
C35_PublishedSlotsFresh ==
    [][(sq_ktail' # sq_ktail /\ batch.live) =>
            \A k \in batch.next .. batch.len - 1 :
                sqes[BitAnd(batch.base + k, Mask)] = Zeroed]_vars

\* C36: prepare_sqes(count) returns a batch exactly when count is at most
\* the capacity less the slots in use, the wrapping difference of the
\* unpublished tail and the kernel's head, for every count up to the
\* largest of the counters' width.
C36_BatchIffRoom ==
    [][\A count \in Counts : PrepareSqes(count) =>
            (sq_ret'.kind = "Some"
                <=> count <= Entries - WSub(sqe_tail, sq_khead))]_vars
\* a batch that fills the ring was returned with a tail that has wrapped and
\* a head that has not
C36_Witness ==
    /\ sq_ret = Ret("prepare_sqes", "Some", 1)
    /\ sqe_tail < sq_khead
    /\ WSub(sqe_tail, sq_khead) = Entries

----
(* The loop of submit_and_wait_with_timeout *)

----
(* The single-completion wait and the timeouts *)

\* C38: a turn of the single-completion wait that finds a timeout's
\* completion at the head of the ring reports None and marks that
\* completion seen (the head advances by one, no handle is left), and
\* wait_for_cqe goes on waiting; the head advances without a handle only so;
\* the completion wait_for_cqe returns does not carry the timeout's tag.
C38_WaitSkipsTimeoutOnce ==
    [][/\ (/\ cqe = NoCqe
           /\ CqReady >= 1
           /\ cqes[BitAnd(cq_khead, CqMask)].user_data = LIBURING_UDATA_TIMEOUT
           /\ <<cq_khead, cqe, cq_pc, cq_ret>>' # <<cq_khead, cqe, cq_pc, cq_ret>>)
            => /\ cq_ret' = Ret("wait", "None", 0)
               /\ cq_khead' = Wrap(cq_khead + 1)
               /\ cqe' = NoCqe
               /\ cq_pc' = "wait_for_cqe"
       /\ (cqe = NoCqe /\ cq_khead' # cq_khead)
            => cqes[BitAnd(cq_khead, CqMask)].user_data = LIBURING_UDATA_TIMEOUT
       /\ (cqe = NoCqe /\ cqe' # NoCqe)
            => /\ cq_ret' = Ret("wait_for_cqe", "Ok", cqe'.at)
               /\ cqes[cqe'.at].user_data # LIBURING_UDATA_TIMEOUT
               /\ cq_khead' = cq_khead]_vars
\* wait_for_cqe has returned the completion that arrived after a timeout's
C38_Witness ==
    /\ cq_ret.op = "wait_for_cqe"
    /\ cq_ret.kind = "Ok"
    /\ cqe # NoCqe
    /\ cq_khead = 1
    /\ cqes[0].user_data = LIBURING_UDATA_TIMEOUT
    /\ cqes[0].res = -62

----
(* The waits with a timeout *)

\* C39: wait_for_cqe_with_timeout and wait_for_cqes_with_timeout called with
\* the submission queue of another ring end in the panic of their
\* assertion, with no call of the transport: the ring's indices, slots and
\* completions, the requests the kernel holds and the handles are as before.
C39_OtherRingPanics ==
    [][\A op \in {"wait_for_cqe_with_timeout", "wait_for_cqes_with_timeout"},
         count \in 0 .. 1 :
            WaitWithTimeout(op, count, FALSE)
                => /\ cq_ret' = Ret(op, "Panic", count)
                   /\ UNCHANGED <<sq_vars, cq_vars, inflight, sqe, batch, cqe,
                                  iter, sq_ret, got>>]_vars
\* the assertion failed on a ring with a completion ready and a slot free
C39_Witness ==
    /\ cq_ret = Ret("wait_for_cqes_with_timeout", "Panic", 1)
    /\ CqReady >= 1
    /\ GetSqeFits
    /\ cqe = NoCqe

\* C40: a batch iteration that has taken s completions without advancing the
\* queue never holds an available count above the ready completions less s,
\* and when its wait_for_cqes(count) returns Ok at least `count` further
\* completions are available to next_cqe.
C40_AvailableIsReadyLessSeen ==
    iter.live =>
        /\ iter.available \in 0 .. CqReady
        /\ iter.available + iter.seen <= CqReady
        /\ cq_ret.op = "events_wait_for_cqes" /\ cq_ret.kind = "Ok"
               => (IF iter.available = 0 THEN CqReady - iter.seen
                   ELSE iter.available) >= cq_ret.val
        /\ cq_ret.op = "events_wait_for_cqes" => cq_ret.kind # "Panic"

====
